---- MODULE Spec2Model ----
(***************************************************************************)
(* Model of the GfxPluginStreamline native bridge (native/NvidiaReflex):   *)
(* the session globals of StreamlineCommon.cpp, the device lifecycle of    *)
(* StreamlineInit.cpp and the exported feature operations of               *)
(* StreamlineReflex.cpp, StreamlineDLSSCore.cpp, StreamlineFrameGen.cpp    *)
(* and StreamlineDLSSLegacy.cpp.                                           *)
(*                                                                         *)
(* The vendor SDK and the Unity host are environments: every SDK entry     *)
(* point returns a result code chosen by the environment, and the host     *)
(* owns the renderer type and the interfaces it hands out.  A pointer is   *)
(* modelled by the host epoch in which it was obtained, 0 being nullptr,   *)
(* so that a pointer kept from an earlier device is distinguishable.       *)
(***************************************************************************)
EXTENDS Integers, Sequences, FiniteSets, TLC

VARIABLES
    g_initialized, g_reflexSupported, g_pclSupported, g_dlssSupported,
    g_dlssgSupported,
    g_currentMode, g_dlssMode, g_dlssgMode, g_numFramesToGenerate, g_frameId,
    g_dlssViewport, g_dlssPending,
    s_Graphics, s_RendererType, s_D3D12v7, s_D3D12v6, s_D3D12Device,
    s_D3D12CommandQueue, s_D3D12v7_ptr, s_D3D11, s_D3D11Device,
    g_lastErrorCode, g_lastErrorMessage,
    g_callbackInvocationCount, g_mutex,
    pc,          \* where each thread stands in the operation it runs
    handoff,     \* the render thread's frame token and the history of the
                 \* prepare/evaluate handshake
    plugin,      \* "fresh" | "loaded" | "unloaded": UnityPluginLoad/Unload
    host,        \* the host's graphics device: epoch, renderer, interfaces
    sdkUp,       \* the SDK's own state: slInit succeeded, no slShutdown since
    everShutdown,\* history: ShutdownStreamline has torn a session down
    sdkReflex,   \* the SDK's sl::ReflexState: report ring and availability
    lastOp       \* observation of the most recent operation

flagVars == <<g_initialized, g_reflexSupported, g_pclSupported,
              g_dlssSupported, g_dlssgSupported>>
modeVars == <<g_currentMode, g_dlssMode, g_dlssgMode, g_numFramesToGenerate>>
frameVars == <<g_frameId, g_dlssViewport, g_dlssPending>>
ifaceVars == <<s_Graphics, s_D3D12v7, s_D3D12v6, s_D3D11>>
handleVars == <<s_RendererType, s_D3D12Device, s_D3D12CommandQueue,
                s_D3D12v7_ptr, s_D3D11Device>>
errVars == <<g_lastErrorCode, g_lastErrorMessage>>
envVars == <<plugin, host, sdkUp, everShutdown, sdkReflex>>
threadVars == <<g_callbackInvocationCount, g_mutex, pc, handoff>>

\* The session state of the data model: flags, modes, frame counter,
\* device and queue handles, last-error pair.
sessionVars == <<flagVars, modeVars, frameVars, handleVars, errVars>>

vars == <<flagVars, modeVars, frameVars, ifaceVars, handleVars, errVars,
          envVars, threadVars, lastOp>>

----------------------------------------------------------------------------
(* Bounds of the model *)

MaxEpoch == 2        \* host devices created over a run
MaxFrame == 2        \* cap of the frame counter
MaxSlError == 1      \* non-OK result codes the SDK draws from in a run
MaxResultCode == 40  \* largest sl::Result value of the error-code table
RingSize == 3        \* entries of the latency report ring
MaxCallbacks == 6    \* render-event callbacks over a run

----------------------------------------------------------------------------
(* SDK and host vocabulary *)

eOk == 0
SlResults == 0..MaxSlError
SlErrors == 1..MaxSlError

NullPtr == 0

Renderers == {"Null", "D3D11", "D3D12", "Vulkan"}

\* One SDK or host call made by an operation: entry point, two integer
\* arguments (0 when unused) and the result code it returned.
Call(f, a, b, r) == [f |-> f, a |-> a, b |-> b, r |-> r]

Names(calls) == {calls[i].f : i \in 1..Len(calls)}

Count(calls, f) == Cardinality({i \in 1..Len(calls) : calls[i].f = f})

\* The six phases of a latency report, in the order of ReflexLatencyStats.
Phases == {"simulation", "renderSubmit", "present", "driver",
           "osRenderQueue", "gpuRender"}

\* A ReflexLatencyStats record.  A phase value in milliseconds is the exact
\* quotient sum[ph] / den of integers (microseconds over 1000 * frames);
\* total likewise.  written tells the callee's stores from the content the
\* caller passed in.
Stats(written, sum, den, total) ==
    [written |-> written, sum |-> sum, den |-> den, total |-> total]

\* The caller's record where the callee stored nothing.
Untouched == Stats(FALSE, [ph \in Phases |-> 0], 1, 0)

\* What an operation did: its name, its return value ("true", "false" or
\* "void"), the SDK calls and the host calls it made, in order, the result
\* of the InitializeStreamline call nested in it ("none" if none), the
\* latency record it was given to fill, for the render callback the
\* handshake variables it read and, for a getter (ret is "int"), the
\* integer it returned.
Op(name, ret, sdk, hostCalls, init) ==
    [name |-> name, arg |-> 0, ret |-> ret, sdk |-> sdk, host |-> hostCalls,
     init |-> init, out |-> Untouched, reads |-> {}, value |-> 0]

\* An exported operation called with the integer argument arg.
OpArg(name, arg, ret, sdk) ==
    [name |-> name, arg |-> arg, ret |-> ret, sdk |-> sdk, host |-> <<>>,
     init |-> "none", out |-> Untouched, reads |-> {}, value |-> 0]

Bool(b) == IF b THEN "true" ELSE "false"

----------------------------------------------------------------------------
(* Initial state: the static initialisers *)

\* The threads of the host that run plugin code step by step: the
\* simulation thread in SLDLSS_PrepareEvaluate, the render thread in
\* OnDLSSRenderEvent, a thread in SLReflex_TryInitialize, a thread in
\* SLReflex_Shutdown and a thread in a legacy setter.
Threads == {"sim", "render", "init", "shut", "set"}

\* token: the frame index of the token the render thread holds.  History
\* of the handshake: prepared, a prepare has run; marked, the frame index
\* the last prepare captured; attempts, the calls of slEvaluateFeature by
\* the callback since the last prepare; stale, one of them was keyed to
\* another frame index than marked; over, the last prepare found a request
\* pending and overwrote it; crossed, the session was initialized or shut
\* down while the request of the last prepare was pending.
NoHandoff == [token |-> 0, prepared |-> FALSE, marked |-> 0, attempts |-> 0,
              stale |-> FALSE, over |-> FALSE, crossed |-> FALSE]

\* The history after a prepare that captured frameIndex.
Marked(frameIndex) ==
    [handoff EXCEPT !.prepared = TRUE, !.marked = frameIndex,
                    !.attempts = 0, !.stale = FALSE,
                    !.over = g_dlssPending.ready, !.crossed = FALSE]

\* The history after slEvaluateFeature was called with the token of
\* frameIndex.
Attempted(frameIndex) ==
    [handoff EXCEPT !.token = frameIndex, !.attempts = @ + 1,
                    !.stale = @ \/ frameIndex # handoff.marked]

NoDevice(e) == [epoch |-> e, renderer |-> "Null", v7 |-> FALSE, v6 |-> FALSE,
                d3d11 |-> FALSE]

\* One sl::ReflexReport: a frame id and, per phase, start and end times in
\* microseconds.
Report(id, start, end) == [frameID |-> id, start |-> start, end |-> end]

\* A report of frame id whose phases all start at base, phase n lasting
\* n * k microseconds: the six durations differ.
Timed(id, base, k) ==
    Report(id, [ph \in Phases |-> base],
           [ph \in Phases |->
               base + k * (CASE ph = "simulation" -> 1
                             [] ph = "renderSubmit" -> 2
                             [] ph = "present" -> 3
                             [] ph = "driver" -> 4
                             [] ph = "osRenderQueue" -> 5
                             [] OTHER -> 6)])

\* The report slots a ring is drawn from: two measured frames, a zeroed
\* slot, a slot of frame id 0 that still holds times, and a frame some of
\* whose phases did not advance.
ReportSamples ==
    {Timed(1, 10, 100), Timed(2, 500, 7), Timed(0, 0, 0), Timed(0, 10, 100),
     [Timed(3, 40, 30) EXCEPT !.end["simulation"] = 40,
                              !.end["present"] = 20]}

Rings == [1..RingSize -> ReportSamples]

EmptyRing == [i \in 1..RingSize |-> Timed(0, 0, 0)]

InitWith(reflexState) ==
    /\ sdkReflex = reflexState
    /\ g_initialized = FALSE
    /\ g_reflexSupported = FALSE
    /\ g_pclSupported = FALSE
    /\ g_dlssSupported = FALSE
    /\ g_dlssgSupported = FALSE
    /\ g_currentMode = 0
    /\ g_dlssMode = 0
    /\ g_dlssgMode = 0
    /\ g_numFramesToGenerate = 1
    /\ g_frameId = 0
    /\ g_dlssViewport = 0
    /\ g_dlssPending = [ready |-> FALSE, frameIndex |-> 0]
    /\ s_Graphics = NullPtr
    /\ s_RendererType = "Null"
    /\ s_D3D12v7 = NullPtr
    /\ s_D3D12v6 = NullPtr
    /\ s_D3D12Device = NullPtr
    /\ s_D3D12CommandQueue = NullPtr
    /\ s_D3D12v7_ptr = NullPtr
    /\ s_D3D11 = NullPtr
    /\ s_D3D11Device = NullPtr
    /\ g_lastErrorCode = 0
    /\ g_lastErrorMessage = "Not initialized yet"
    /\ g_callbackInvocationCount = 0
    /\ g_mutex = "free"
    /\ pc = [t \in Threads |-> "idle"]
    /\ handoff = NoHandoff
    /\ plugin = "fresh"
    /\ host = NoDevice(0)
    /\ sdkUp = FALSE
    /\ everShutdown = FALSE
    /\ lastOp = Op("none", "void", <<>>, <<>>, "none")

Init == InitWith([available |-> FALSE, ring |-> EmptyRing])

----------------------------------------------------------------------------
(* InitializeStreamline and ShutdownStreamline (StreamlineInit.cpp) *)

\* A feature-support probe is compared with eOk only: one non-OK code
\* stands for every failure.
Unsupported == CHOOSE r \in SlErrors : TRUE

ProbeResults == {eOk, Unsupported}

Probes(r, p, d, g) == [reflex |-> r, pcl |-> p, dlss |-> d, dlssg |-> g]

AllProbes == [reflex : ProbeResults, pcl : ProbeResults,
              dlss : ProbeResults, dlssg : ProbeResults]

AllSupported == Probes(eOk, eOk, eOk, eOk)

\* The adapters drawn where the four probes need not vary independently.
SampleProbes ==
    {AllSupported,
     Probes(Unsupported, Unsupported, Unsupported, Unsupported),
     Probes(eOk, Unsupported, eOk, Unsupported),
     Probes(Unsupported, eOk, Unsupported, eOk)}

\* The result codes the SDK returns to one initialization attempt, the
\* probes drawn from P.  A call that is not reached returns nothing, so its
\* result is fixed to eOk.
InitResults(P) ==
    {[init |-> i, bind |-> b, reflex |-> p.reflex, pcl |-> p.pcl,
      dlss |-> p.dlss, dlssg |-> p.dlssg] :
        i \in SlResults, b \in SlResults, p \in P}
    \ {r \in [init : SlResults, bind : SlResults, reflex : ProbeResults,
              pcl : ProbeResults, dlss : ProbeResults,
              dlssg : ProbeResults] :
          \/ r.init # eOk /\ r.bind # eOk
          \/ (r.init # eOk \/ r.bind # eOk) /\
             Probes(r.reflex, r.pcl, r.dlss, r.dlssg) # AllSupported}

NoDeviceErrorCode == -999

InitErrorCode(r) == -r

BindErrorCode_NoOffset(r) == -r

BindErrorCode(r) == -100 - r

\* The part of the state InitializeStreamline and ShutdownStreamline write,
\* left as it is, with a return value and the SDK calls made.
Keep(ret, sdk) ==
    [ret |-> ret, sdk |-> sdk, init |-> g_initialized,
     rs |-> g_reflexSupported, ps |-> g_pclSupported,
     ds |-> g_dlssSupported, gs |-> g_dlssgSupported,
     cm |-> g_currentMode, dm |-> g_dlssMode, gm |-> g_dlssgMode,
     fid |-> g_frameId, ec |-> g_lastErrorCode, em |-> g_lastErrorMessage,
     up |-> sdkUp, sd |-> everShutdown]

InitNoDevice ==
    [Keep(FALSE, <<>>) EXCEPT !.ec = NoDeviceErrorCode,
                              !.em = "No D3D device available"]

InitFailAtInit(r) ==
    [Keep(FALSE, <<Call("slInit", 0, 0, r)>>) EXCEPT
        !.ec = InitErrorCode(r), !.em = "slInit failed"]

InitFailAtBind_NoTeardown(dev, r) ==
    [Keep(FALSE, <<Call("slInit", 0, 0, eOk),
                   Call("slSetD3DDevice", dev, 0, r)>>) EXCEPT
        !.ec = BindErrorCode(r), !.em = "slSetD3DDevice failed",
        !.up = TRUE]

InitFailAtBind(dev, r) ==
    [Keep(FALSE, <<Call("slInit", 0, 0, eOk),
                   Call("slSetD3DDevice", dev, 0, r),
                   Call("slShutdown", 0, 0, eOk)>>) EXCEPT
        !.ec = BindErrorCode(r), !.em = "slSetD3DDevice failed",
        !.up = FALSE]

InitSuccess_KeepFrame(dev, sl) ==
    [Keep(TRUE, <<Call("slInit", 0, 0, eOk),
                  Call("slSetD3DDevice", dev, 0, eOk),
                  Call("slIsFeatureSupported", 0, 0, sl.reflex),
                  Call("slIsFeatureSupported", 1, 0, sl.pcl),
                  Call("slIsFeatureSupported", 2, 0, sl.dlss),
                  Call("slIsFeatureSupported", 3, 0, sl.dlssg)>>) EXCEPT
        !.rs = (sl.reflex = eOk), !.ps = (sl.pcl = eOk),
        !.ds = (sl.dlss = eOk), !.gs = (sl.dlssg = eOk),
        !.init = TRUE, !.ec = 0, !.em = "OK", !.up = TRUE]

InitSuccess_FrameGenNeedsUpscaling(dev, sl) ==
    [Keep(TRUE, <<Call("slInit", 0, 0, eOk),
                  Call("slSetD3DDevice", dev, 0, eOk),
                  Call("slIsFeatureSupported", 0, 0, sl.reflex),
                  Call("slIsFeatureSupported", 1, 0, sl.pcl),
                  Call("slIsFeatureSupported", 2, 0, sl.dlss),
                  Call("slIsFeatureSupported", 3, 0, sl.dlssg)>>) EXCEPT
        !.rs = (sl.reflex = eOk), !.ps = (sl.pcl = eOk),
        !.ds = (sl.dlss = eOk),
        !.gs = (sl.dlssg = eOk /\ sl.dlss = eOk),
        !.init = TRUE, !.fid = 0, !.ec = 0, !.em = "OK", !.up = TRUE]

InitSuccess(dev, sl) ==
    [Keep(TRUE, <<Call("slInit", 0, 0, eOk),
                  Call("slSetD3DDevice", dev, 0, eOk),
                  Call("slIsFeatureSupported", 0, 0, sl.reflex),
                  Call("slIsFeatureSupported", 1, 0, sl.pcl),
                  Call("slIsFeatureSupported", 2, 0, sl.dlss),
                  Call("slIsFeatureSupported", 3, 0, sl.dlssg)>>) EXCEPT
        !.rs = (sl.reflex = eOk), !.ps = (sl.pcl = eOk),
        !.ds = (sl.dlss = eOk), !.gs = (sl.dlssg = eOk),
        !.init = TRUE, !.fid = 0, !.ec = 0, !.em = "OK", !.up = TRUE]

InitializeStreamline_Again(dev12, dev11, sl) ==
    LET d3dDevice == IF dev12 # NullPtr THEN dev12 ELSE dev11
    IN  IF d3dDevice = NullPtr THEN InitNoDevice
        ELSE IF sl.init # eOk THEN InitFailAtInit(sl.init)
        ELSE IF sl.bind # eOk THEN InitFailAtBind(d3dDevice, sl.bind)
        ELSE InitSuccess(d3dDevice, sl)

\* InitializeStreamline() run with the device handles dev12 and dev11.
InitializeStreamline(dev12, dev11, sl) ==
    LET d3dDevice == IF dev12 # NullPtr THEN dev12 ELSE dev11
    IN  IF g_initialized THEN Keep(TRUE, <<>>)
        ELSE IF d3dDevice = NullPtr THEN InitNoDevice
        ELSE IF sl.init # eOk THEN InitFailAtInit(sl.init)
        ELSE IF sl.bind # eOk THEN InitFailAtBind(d3dDevice, sl.bind)
        ELSE InitSuccess(d3dDevice, sl)

\* A shutdown that leaves the three modes as they are.
ShutdownStreamline_KeepsModes ==
    IF ~g_initialized THEN Keep(FALSE, <<>>)
    ELSE [Keep(FALSE, <<Call("slShutdown", 0, 0, eOk)>>) EXCEPT
            !.init = FALSE, !.rs = FALSE, !.ps = FALSE, !.ds = FALSE,
            !.gs = FALSE, !.up = FALSE, !.sd = TRUE]

\* A shutdown that does not test the initialized flag.
ShutdownStreamline_Unguarded ==
    [Keep(FALSE, <<Call("slShutdown", 0, 0, eOk)>>) EXCEPT
        !.init = FALSE, !.rs = FALSE, !.ps = FALSE, !.ds = FALSE,
        !.gs = FALSE, !.cm = 0, !.dm = 0, !.gm = 0, !.up = FALSE,
        !.sd = TRUE]

ShutdownStreamline ==
    IF ~g_initialized THEN Keep(FALSE, <<>>)
    ELSE [Keep(FALSE, <<Call("slShutdown", 0, 0, eOk)>>) EXCEPT
            !.init = FALSE, !.rs = FALSE, !.ps = FALSE, !.ds = FALSE,
            !.gs = FALSE, !.cm = 0, !.dm = 0, !.gm = 0, !.up = FALSE,
            !.sd = TRUE]

\* Store the outcome o of InitializeStreamline or ShutdownStreamline.
Apply(o) ==
    /\ g_initialized' = o.init
    /\ g_reflexSupported' = o.rs
    /\ g_pclSupported' = o.ps
    /\ g_dlssSupported' = o.ds
    /\ g_dlssgSupported' = o.gs
    /\ g_currentMode' = o.cm
    /\ g_dlssMode' = o.dm
    /\ g_dlssgMode' = o.gm
    /\ g_frameId' = o.fid
    /\ g_lastErrorCode' = o.ec
    /\ g_lastErrorMessage' = o.em
    /\ sdkUp' = o.up
    /\ everShutdown' = o.sd
    /\ handoff' = IF o.init # g_initialized /\ g_dlssPending.ready
                  THEN [handoff EXCEPT !.crossed = TRUE]
                  ELSE handoff
    /\ UNCHANGED <<g_numFramesToGenerate, g_dlssViewport, g_dlssPending,
                   sdkReflex, g_callbackInvocationCount, g_mutex, pc>>

----------------------------------------------------------------------------
(* The host: Unity's graphics device and the interfaces it hands out *)

HostConfigs(e) ==
    {[epoch |-> e, renderer |-> "D3D12", v7 |-> TRUE, v6 |-> TRUE,
      d3d11 |-> FALSE],
     [epoch |-> e, renderer |-> "D3D12", v7 |-> FALSE, v6 |-> TRUE,
      d3d11 |-> FALSE],
     [epoch |-> e, renderer |-> "D3D12", v7 |-> FALSE, v6 |-> FALSE,
      d3d11 |-> FALSE],
     [epoch |-> e, renderer |-> "D3D11", v7 |-> FALSE, v6 |-> FALSE,
      d3d11 |-> TRUE],
     [epoch |-> e, renderer |-> "D3D11", v7 |-> FALSE, v6 |-> FALSE,
      d3d11 |-> FALSE],
     [epoch |-> e, renderer |-> "Vulkan", v7 |-> FALSE, v6 |-> FALSE,
      d3d11 |-> FALSE]}

\* The host creates its graphics device (no plugin code runs).
HostCreateDevice(cfg) ==
    /\ host.renderer = "Null"
    /\ host.epoch < MaxEpoch
    /\ cfg \in HostConfigs(host.epoch + 1)
    /\ host' = cfg
    /\ UNCHANGED <<flagVars, modeVars, frameVars, ifaceVars, handleVars,
                   errVars, threadVars, plugin, sdkUp, everShutdown, sdkReflex, lastOp>>

\* The pointer the host returns for an interface it has (or nullptr).
Iface(present) == IF present THEN host.epoch ELSE NullPtr

----------------------------------------------------------------------------
(* OnGraphicsDeviceEvent (StreamlineInit.cpp) *)

AccessorCalls_BothVersions ==
    IF host.renderer = "D3D12"
    THEN <<Call("Get_IUnityGraphicsD3D12v7", 0, 0, Iface(host.v7)),
           Call("Get_IUnityGraphicsD3D12v6", 0, 0, Iface(host.v6))>>
    ELSE IF host.renderer = "D3D11"
    THEN <<Call("Get_IUnityGraphicsD3D11", 0, 0, Iface(host.d3d11))>>
    ELSE <<>>

\* The accessor requests of kUnityGfxDeviceEventInitialize, in order.
AccessorCalls ==
    IF host.renderer = "D3D12"
    THEN IF Iface(host.v7) # NullPtr
         THEN <<Call("Get_IUnityGraphicsD3D12v7", 0, 0, Iface(host.v7))>>
         ELSE <<Call("Get_IUnityGraphicsD3D12v7", 0, 0, NullPtr),
                Call("Get_IUnityGraphicsD3D12v6", 0, 0, Iface(host.v6))>>
    ELSE IF host.renderer = "D3D11"
    THEN <<Call("Get_IUnityGraphicsD3D11", 0, 0, Iface(host.d3d11))>>
    ELSE <<>>

\* The statics after the accessor chain of the initialize event.
BoundHandles ==
    LET d3d12 == host.renderer = "D3D12"
        d3d11 == host.renderer = "D3D11"
        v7 == IF d3d12 THEN Iface(host.v7) ELSE s_D3D12v7
        tryV6 == d3d12 /\ v7 = NullPtr
        v6 == IF tryV6 THEN Iface(host.v6) ELSE s_D3D12v6
        got12 == d3d12 /\ (v7 # NullPtr \/ v6 # NullPtr)
        i11 == IF d3d11 THEN Iface(host.d3d11) ELSE s_D3D11
    IN  [rt |-> host.renderer, v7 |-> v7, v6 |-> v6,
         dev12 |-> IF got12 THEN host.epoch ELSE s_D3D12Device,
         queue |-> IF got12 THEN host.epoch ELSE s_D3D12CommandQueue,
         v7ptr |-> IF d3d12 /\ v7 # NullPtr THEN v7 ELSE s_D3D12v7_ptr,
         i11 |-> i11,
         dev11 |-> IF d3d11 /\ i11 # NullPtr THEN host.epoch
                   ELSE s_D3D11Device]

\* The body of the kUnityGfxDeviceEventInitialize branch; name is the
\* operation that runs it and graphics the s_Graphics it runs with.
DeviceInitialize(name, graphics, sl) ==
    LET h == BoundHandles
        call == h.dev12 # NullPtr \/ h.dev11 # NullPtr
        o == IF call THEN InitializeStreamline(h.dev12, h.dev11, sl)
             ELSE Keep(FALSE, <<>>)
    IN  /\ s_Graphics' = graphics
        /\ s_RendererType' = h.rt
        /\ s_D3D12v7' = h.v7
        /\ s_D3D12v6' = h.v6
        /\ s_D3D12Device' = h.dev12
        /\ s_D3D12CommandQueue' = h.queue
        /\ s_D3D12v7_ptr' = h.v7ptr
        /\ s_D3D11' = h.i11
        /\ s_D3D11Device' = h.dev11
        /\ Apply(o)
        /\ lastOp' = Op(name, "void", o.sdk,
                        <<Call("GetRenderer", 0, 0, 0)>> \o AccessorCalls,
                        IF call THEN Bool(o.ret) ELSE "none")

OnGraphicsDeviceEvent_Initialize(sl) ==
    /\ plugin = "loaded"
    /\ s_Graphics # NullPtr
    /\ DeviceInitialize("OnGraphicsDeviceEvent_Initialize", s_Graphics, sl)
    /\ UNCHANGED <<plugin, host>>

OnGraphicsDeviceEvent_Shutdown_KeepsSession ==
    /\ plugin = "loaded"
    /\ s_Graphics # NullPtr
    /\ s_D3D12Device' = NullPtr
    /\ s_D3D12CommandQueue' = NullPtr
    /\ s_D3D11Device' = NullPtr
    /\ s_RendererType' = "Null"
    /\ host' = NoDevice(host.epoch)
    /\ lastOp' = Op("OnGraphicsDeviceEvent_Shutdown", "void", <<>>, <<>>,
                    "none")
    /\ UNCHANGED <<flagVars, modeVars, frameVars, ifaceVars, s_D3D12v7_ptr,
                   errVars, threadVars, plugin, sdkUp, everShutdown,
                   sdkReflex>>

OnGraphicsDeviceEvent_Shutdown ==
    LET o == ShutdownStreamline
    IN  /\ plugin = "loaded"
        /\ s_Graphics # NullPtr
        /\ Apply(o)
        /\ s_D3D12Device' = NullPtr
        /\ s_D3D12CommandQueue' = NullPtr
        /\ s_D3D11Device' = NullPtr
        /\ s_RendererType' = "Null"
        /\ host' = NoDevice(host.epoch)
        /\ lastOp' = Op("OnGraphicsDeviceEvent_Shutdown", "void", o.sdk,
                        <<>>, "none")
        /\ UNCHANGED <<ifaceVars, s_D3D12v7_ptr, plugin>>

----------------------------------------------------------------------------
(* Plugin entry points and the exported lifecycle API (StreamlineInit.cpp) *)

UnityPluginLoad(graphicsAvail, sl) ==
    /\ plugin = "fresh"
    /\ plugin' = "loaded"
    /\ IF graphicsAvail
       THEN DeviceInitialize("UnityPluginLoad", 1, sl)
       ELSE /\ s_Graphics' = NullPtr
            /\ lastOp' = Op("UnityPluginLoad", "void", <<>>, <<>>, "none")
            /\ UNCHANGED <<flagVars, modeVars, frameVars, s_D3D12v7,
                           s_D3D12v6, s_D3D11, handleVars, errVars, threadVars, sdkUp,
                           everShutdown, sdkReflex>>
    /\ UNCHANGED host

UnityPluginUnload ==
    LET o == ShutdownStreamline
    IN  /\ plugin = "loaded"
        /\ plugin' = "unloaded"
        /\ Apply(o)
        /\ s_Graphics' = NullPtr
        /\ lastOp' = Op("UnityPluginUnload", "void", o.sdk, <<>>, "none")
        /\ UNCHANGED <<s_D3D12v7, s_D3D12v6, s_D3D11, handleVars, host>>

SLReflex_TryInitialize(sl) ==
    LET have == s_D3D12Device # NullPtr \/ s_D3D11Device # NullPtr
        o == IF g_initialized THEN Keep(TRUE, <<>>)
             ELSE IF have
             THEN InitializeStreamline(s_D3D12Device, s_D3D11Device, sl)
             ELSE [Keep(FALSE, <<>>) EXCEPT !.ec = NoDeviceErrorCode,
                                            !.em = "No device"]
    IN  /\ Apply(o)
        /\ lastOp' = Op("SLReflex_TryInitialize", Bool(o.ret), o.sdk, <<>>,
                        IF ~g_initialized /\ have THEN Bool(o.ret)
                        ELSE "none")
        /\ UNCHANGED <<ifaceVars, handleVars, plugin, host>>

SLReflex_Initialize(sl) ==
    LET have == s_D3D12Device # NullPtr \/ s_D3D11Device # NullPtr
        o == IF g_initialized THEN Keep(TRUE, <<>>)
             ELSE IF have
             THEN InitializeStreamline(s_D3D12Device, s_D3D11Device, sl)
             ELSE Keep(FALSE, <<>>)
    IN  /\ Apply(o)
        /\ lastOp' = Op("SLReflex_Initialize", Bool(o.ret), o.sdk, <<>>,
                        IF ~g_initialized /\ have THEN Bool(o.ret)
                        ELSE "none")
        /\ UNCHANGED <<ifaceVars, handleVars, plugin, host>>

SLReflex_Shutdown ==
    LET o == ShutdownStreamline
    IN  /\ Apply(o)
        /\ lastOp' = Op("SLReflex_Shutdown", "void", o.sdk, <<>>, "none")
        /\ UNCHANGED <<ifaceVars, handleVars, plugin, host>>

----------------------------------------------------------------------------
(* Frame tokens *)

\* (uint32_t)(g_frameId & 0xFFFFFFFF): fid less its multiple of 2^32, the
\* quotient by 2^32 taken as two quotients by 2^16.
FrameIndex(fid) == fid - (((fid \div 65536) \div 65536) * 65536) * 65536

\* What slGetNewFrameToken returns: a result code and a token pointer,
\* which the SDK leaves null when it fails.
TokenResults ==
    {[r |-> eOk, null |-> FALSE], [r |-> eOk, null |-> TRUE]}
    \cup {[r |-> e, null |-> TRUE] : e \in SlErrors}

TokenOk(t) == t.r = eOk /\ ~t.null

\* The token pointer the request for frame index leaves in frameToken.
TokenPtr(index, t) == IF t.null THEN NullPtr ELSE index + 1

\* The request itself: the frame index passed, the pointer and the result
\* returned.
GetToken(index, t) ==
    Call("slGetNewFrameToken", index, TokenPtr(index, t), t.r)

\* An operation that writes no variable of the program.
Observe(op) ==
    /\ lastOp' = op
    /\ UNCHANGED <<flagVars, modeVars, frameVars, ifaceVars, handleVars,
                   errVars, threadVars, envVars>>

----------------------------------------------------------------------------
(* Reflex control, frame management and markers (StreamlineReflex.cpp) *)

ReflexModes == {0, 1, 2}

\* A Reflex setter that stores the mode before the SDK has accepted it.
SLReflex_SetMode_StoresFirst(mode, r) ==
    LET pass == g_initialized /\ g_reflexSupported /\ mode \in ReflexModes
    IN  /\ g_currentMode' = IF pass THEN mode ELSE g_currentMode
        /\ lastOp' = OpArg("SLReflex_SetMode", mode, Bool(pass /\ r = eOk),
                           IF pass
                           THEN <<Call("slReflexSetOptions", mode, 0, r)>>
                           ELSE <<>>)
        /\ UNCHANGED <<flagVars, g_dlssMode, g_dlssgMode,
                       g_numFramesToGenerate, frameVars, ifaceVars,
                       handleVars, errVars, threadVars, envVars>>

SLReflex_SetMode(mode, r) ==
    LET pass == g_initialized /\ g_reflexSupported /\ mode \in ReflexModes
        ok == pass /\ r = eOk
    IN  /\ g_currentMode' = IF ok THEN mode ELSE g_currentMode
        /\ lastOp' = OpArg("SLReflex_SetMode", mode, Bool(ok),
                           IF pass
                           THEN <<Call("slReflexSetOptions", mode, 0, r)>>
                           ELSE <<>>)
        /\ UNCHANGED <<flagVars, g_dlssMode, g_dlssgMode,
                       g_numFramesToGenerate, frameVars, ifaceVars,
                       handleVars, errVars, threadVars, envVars>>

\* A mode getter: it returns the stored mode.
GetMode(name, mode) ==
    Observe([Op(name, "int", <<>>, <<>>, "none") EXCEPT !.value = mode])

SLReflex_GetMode == GetMode("SLReflex_GetMode", g_currentMode)

SLDLSS_GetMode == GetMode("SLDLSS_GetMode", g_dlssMode)

SLDLSSG_GetMode == GetMode("SLDLSSG_GetMode", g_dlssgMode)

SLReflex_GetState_Unguarded(r) ==
    Observe(Op("SLReflex_GetState", Bool(r = eOk),
               <<Call("slReflexGetState", 0, 0, r)>>, <<>>, "none"))

SLReflex_GetState(r) ==
    Observe(IF ~g_initialized
            THEN Op("SLReflex_GetState", "false", <<>>, <<>>, "none")
            ELSE Op("SLReflex_GetState", Bool(r = eOk),
                    <<Call("slReflexGetState", 0, 0, r)>>, <<>>, "none"))

SLReflex_BeginFrame ==
    /\ g_frameId < MaxFrame
    /\ g_frameId' = IF g_initialized THEN g_frameId + 1 ELSE g_frameId
    /\ lastOp' = Op("SLReflex_BeginFrame", "void", <<>>, <<>>, "none")
    /\ UNCHANGED <<flagVars, modeVars, g_dlssViewport, g_dlssPending,
                   ifaceVars, handleVars, errVars, threadVars, envVars>>

\* The result of slReflexSleep is discarded; it is recorded as eOk.
SLReflex_Sleep(t) ==
    LET frameIndex == FrameIndex(g_frameId)
    IN  Observe(IF ~g_initialized
                THEN Op("SLReflex_Sleep", "void", <<>>, <<>>, "none")
                ELSE Op("SLReflex_Sleep", "void",
                        <<GetToken(frameIndex, t)>> \o
                        (IF TokenOk(t)
                         THEN <<Call("slReflexSleep", 0,
                                     TokenPtr(frameIndex, t), eOk)>>
                         ELSE <<>>), <<>>, "none"))

\* (int)sl::PCLMarker::eMaximum
eMaximum == 20

MarkerInRange_NoUpperBound(marker) == ~(marker < 0)

MarkerInRange(marker) == ~(marker < 0 \/ marker >= eMaximum)

SetMarkerCalls_ForwardsRegardless(marker, t) ==
    IF ~g_initialized THEN <<>>
    ELSE IF ~MarkerInRange(marker) THEN <<>>
    ELSE <<GetToken(FrameIndex(g_frameId), t),
           Call("slPCLSetMarker", marker,
                TokenPtr(FrameIndex(g_frameId), t), eOk)>>

\* The SDK calls of SLReflex_SetMarker(marker); the result of
\* slPCLSetMarker is discarded and recorded as eOk.
SetMarkerCalls(marker, t) ==
    IF ~g_initialized THEN <<>>
    ELSE IF ~MarkerInRange(marker) THEN <<>>
    ELSE <<GetToken(FrameIndex(g_frameId), t)>> \o
         (IF TokenOk(t)
          THEN <<Call("slPCLSetMarker", marker,
                      TokenPtr(FrameIndex(g_frameId), t), eOk)>>
          ELSE <<>>)

SLReflex_SetMarker(marker, t) ==
    Observe(OpArg("SLReflex_SetMarker", marker, "void",
                  SetMarkerCalls(marker, t)))

\* sl::PCLMarker values the marker wrappers pass to SLReflex_SetMarker.
eSimulationStart == 0
eSimulationEnd == 1
eRenderSubmitStart == 2
eRenderSubmitEnd == 3
ePresentStart == 4
ePresentEnd == 5

\* The marker OnRenderEvent forwards for event ids 1 to 5.
EventMarker(eventID) ==
    CASE eventID = 1 -> eSimulationEnd
      [] eventID = 2 -> eRenderSubmitStart
      [] eventID = 3 -> eRenderSubmitEnd
      [] eventID = 4 -> ePresentStart
      [] eventID = 5 -> ePresentEnd

\* The SDK calls of SLReflex_Sleep and of SLReflex_SetMarker(marker) on an
\* initialized session whose frame counter is fid.
SleepCallsAt(fid, t) ==
    <<GetToken(FrameIndex(fid), t)>> \o
    (IF TokenOk(t)
     THEN <<Call("slReflexSleep", 0, TokenPtr(FrameIndex(fid), t), eOk)>>
     ELSE <<>>)

MarkerCallsAt(fid, marker, t) ==
    IF ~MarkerInRange(marker) THEN <<>>
    ELSE <<GetToken(FrameIndex(fid), t)>> \o
         (IF TokenOk(t)
          THEN <<Call("slPCLSetMarker", marker,
                      TokenPtr(FrameIndex(fid), t), eOk)>>
          ELSE <<>>)

\* A frame start that sleeps and marks before it counts the frame.
FrameStartCalls_CountsLast(ts, tm) ==
    SleepCallsAt(g_frameId, ts)
    \o MarkerCallsAt(g_frameId, eSimulationStart, tm)

\* Case 0 of OnRenderEvent on an initialized session: SLReflex_BeginFrame
\* has counted the frame when SLReflex_Sleep and then
\* SLReflex_MarkSimulationStart run; ts and tm are the answers to their
\* token requests.
FrameStartCalls(ts, tm) ==
    SleepCallsAt(g_frameId + 1, ts)
    \o MarkerCallsAt(g_frameId + 1, eSimulationStart, tm)

\* The render-event callback of the Reflex plugin (GL.IssuePluginEvent).
OnRenderEvent(eventID, ts, tm) ==
    /\ eventID = 0 /\ g_initialized => g_frameId < MaxFrame
    /\ g_frameId' = IF eventID = 0 /\ g_initialized THEN g_frameId + 1
                    ELSE g_frameId
    /\ lastOp' = OpArg("OnRenderEvent", eventID, "void",
                       IF ~g_initialized THEN <<>>
                       ELSE IF eventID = 0 THEN FrameStartCalls(ts, tm)
                       ELSE IF eventID \in 1..5
                       THEN MarkerCallsAt(g_frameId, EventMarker(eventID), tm)
                       ELSE <<>>)
    /\ UNCHANGED <<flagVars, modeVars, g_dlssViewport, g_dlssPending,
                   ifaceVars, handleVars, errVars, threadVars, envVars>>

----------------------------------------------------------------------------
(* Latency statistics (StreamlineReflex.cpp) *)

ReportCounts_EverySlot(report) == report.frameID >= 0

\* The loop's test of one slot: frameID == 0 is skipped.
ReportCounts(report) == report.frameID # 0

\* One phase's contribution: added only where the end is after the start.
Elapsed(report, ph) ==
    IF report.end[ph] > report.start[ph]
    THEN report.end[ph] - report.start[ph]
    ELSE 0

\* The loop over state.frameReport from slot i on, acc being the sums in
\* microseconds and the count of valid frames so far.
RECURSIVE Accumulate(_, _, _)
Accumulate(ring, i, acc) ==
    IF i > Len(ring) THEN acc
    ELSE IF ~ReportCounts(ring[i]) THEN Accumulate(ring, i + 1, acc)
    ELSE Accumulate(ring, i + 1,
            [sum |-> [ph \in Phases |-> acc.sum[ph] + Elapsed(ring[i], ph)],
             validFrames |-> acc.validFrames + 1])

Divisor(validFrames) == validFrames

RECURSIVE SumOf(_, _)
SumOf(f, S) ==
    IF S = {} THEN 0
    ELSE LET x == CHOOSE y \in S : TRUE IN f[x] + SumOf(f, S \ {x})

\* SLReflex_GetLatencyStats(stats): what it returns and stores, r being the
\* result of slReflexGetState.
LatencyStats(statsGiven, r) ==
    LET acc == Accumulate(sdkReflex.ring, 1,
                          [sum |-> [ph \in Phases |-> 0], validFrames |-> 0])
        get == <<Call("slReflexGetState", 0, 0, r)>>
        op(ret, sdk, out) ==
            [OpArg("SLReflex_GetLatencyStats", IF statsGiven THEN 1 ELSE 0,
                   ret, sdk) EXCEPT !.out = out]
    IN  IF ~g_initialized \/ ~statsGiven THEN op("false", <<>>, Untouched)
        ELSE IF r # eOk \/ ~sdkReflex.available
        THEN op("false", get, Untouched)
        ELSE IF acc.validFrames > 0
        THEN op("true", get,
                Stats(TRUE, acc.sum, 1000 * Divisor(acc.validFrames),
                      SumOf(acc.sum, Phases)))
        ELSE op("false", get, Stats(TRUE, [ph \in Phases |-> 0], 1, 0))

SLReflex_GetLatencyStats(statsGiven, r) ==
    Observe(LatencyStats(statsGiven, r))

----------------------------------------------------------------------------
(* DLSS core (StreamlineDLSSCore.cpp) *)

SLDLSS_BeginFrame_Unguarded ==
    /\ g_frameId < MaxFrame
    /\ g_frameId' = g_frameId + 1
    /\ lastOp' = Op("SLDLSS_BeginFrame", "void", <<>>, <<>>, "none")
    /\ UNCHANGED <<flagVars, modeVars, g_dlssViewport, g_dlssPending,
                   ifaceVars, handleVars, errVars, threadVars, envVars>>

SLDLSS_BeginFrame ==
    /\ g_frameId < MaxFrame
    /\ g_frameId' = IF g_initialized THEN g_frameId + 1 ELSE g_frameId
    /\ lastOp' = Op("SLDLSS_BeginFrame", "void", <<>>, <<>>, "none")
    /\ UNCHANGED <<flagVars, modeVars, g_dlssViewport, g_dlssPending,
                   ifaceVars, handleVars, errVars, threadVars, envVars>>

\* A viewport setter that waits for the session to be initialized.
SLDLSS_SetViewport_Guarded(viewportId) ==
    /\ g_dlssViewport' = IF g_initialized THEN viewportId ELSE g_dlssViewport
    /\ lastOp' = OpArg("SLDLSS_SetViewport", viewportId, "void", <<>>)
    /\ UNCHANGED <<flagVars, modeVars, g_frameId, g_dlssPending, ifaceVars,
                   handleVars, errVars, threadVars, envVars>>

SLDLSS_SetViewport(viewportId) ==
    /\ g_dlssViewport' = viewportId
    /\ lastOp' = OpArg("SLDLSS_SetViewport", viewportId, "void", <<>>)
    /\ UNCHANGED <<flagVars, modeVars, g_frameId, g_dlssPending, ifaceVars,
                   handleVars, errVars, threadVars, envVars>>

\* r is the result of slSetConstants.
SLDLSS_SetConstants(t, r) ==
    Observe(IF ~g_initialized
            THEN Op("SLDLSS_SetConstants", "false", <<>>, <<>>, "none")
            ELSE IF ~TokenOk(t)
            THEN Op("SLDLSS_SetConstants", "true",
                    <<GetToken(FrameIndex(g_frameId), t)>>, <<>>, "none")
            ELSE Op("SLDLSS_SetConstants", Bool(r = eOk),
                    <<GetToken(FrameIndex(g_frameId), t),
                      Call("slSetConstants", g_dlssViewport, 0, r)>>,
                    <<>>, "none"))

kBufferTypeHUDLessColor == 2
kBufferTypeUIColorAndAlpha == 16

\* The sl::ResourceTag of one call: the buffer role and the lifecycle.
ResourceTag(bufferType) ==
    [type |-> bufferType, lifecycle |-> "eOnlyValidNow"]

\* Tagging that submits the tag whether or not it holds a frame token.
TagResource_SubmitsRegardless(name, resource, bufferType, t, r) ==
    Observe(IF ~g_initialized \/ resource = NullPtr
            THEN OpArg(name, resource, "false", <<>>)
            ELSE OpArg(name, resource, Bool(r = eOk),
                       <<GetToken(FrameIndex(g_frameId), t),
                         Call("slSetTagForFrame", g_dlssViewport,
                              ResourceTag(bufferType), r)>>))

\* SLDLSS_TagResourceD3D12, exported as name: resource is the native
\* handle (0 is nullptr), r the result of slSetTagForFrame.
TagResource(name, resource, bufferType, t, r) ==
    Observe(IF ~g_initialized \/ resource = NullPtr
            THEN OpArg(name, resource, "false", <<>>)
            ELSE IF ~TokenOk(t)
            THEN OpArg(name, resource, "false",
                       <<GetToken(FrameIndex(g_frameId), t)>>)
            ELSE OpArg(name, resource, Bool(r = eOk),
                       <<GetToken(FrameIndex(g_frameId), t),
                         Call("slSetTagForFrame", g_dlssViewport,
                              ResourceTag(bufferType), r)>>))

SLDLSS_TagResourceD3D12(resource, bufferType, t, r) ==
    TagResource("SLDLSS_TagResourceD3D12", resource, bufferType, t, r)

\* A current option setter as a function of the state it runs in: f is
\* the SDK setter it calls, for the current viewport, r the result.
SetOptions(f, mode, r) ==
    IF ~g_initialized THEN [ret |-> FALSE, sdk |-> <<>>]
    ELSE [ret |-> r = eOk, sdk |-> <<Call(f, g_dlssViewport, mode, r)>>]

SLDLSS_SetOptions(mode, r) ==
    LET c == SetOptions("slDLSSSetOptions", mode, r)
    IN  /\ g_dlssMode' = IF c.ret THEN mode ELSE g_dlssMode
        /\ lastOp' = OpArg("SLDLSS_SetOptions", mode, Bool(c.ret), c.sdk)
        /\ UNCHANGED <<flagVars, g_currentMode, g_dlssgMode,
                       g_numFramesToGenerate, frameVars, ifaceVars,
                       handleVars, errVars, threadVars, envVars>>

\* The caller's output locations after the callee stored the queried
\* settings through them.
Filled == [Untouched EXCEPT !.written = TRUE]

\* The settings query stores through the caller's pointers whatever the
\* SDK returned.
SLDLSS_GetOptimalSettings_StoresAlways(mode, r) ==
    Observe(IF ~g_initialized \/ ~g_dlssSupported
            THEN OpArg("SLDLSS_GetOptimalSettings", mode, "false", <<>>)
            ELSE [OpArg("SLDLSS_GetOptimalSettings", mode, Bool(r = eOk),
                        <<Call("slDLSSGetOptimalSettings", mode, 0, r)>>)
                  EXCEPT !.out = Filled])

\* r is the result of slDLSSGetOptimalSettings.
SLDLSS_GetOptimalSettings(mode, r) ==
    Observe(IF ~g_initialized \/ ~g_dlssSupported
            THEN OpArg("SLDLSS_GetOptimalSettings", mode, "false", <<>>)
            ELSE [OpArg("SLDLSS_GetOptimalSettings", mode, Bool(r = eOk),
                        <<Call("slDLSSGetOptimalSettings", mode, 0, r)>>)
                  EXCEPT !.out = IF r = eOk THEN Filled ELSE Untouched])

\* Direct evaluation that reports success once it holds a frame token.
SLDLSS_Evaluate_IgnoresResult(t, r) ==
    Observe(IF ~g_initialized \/ ~g_dlssSupported
            THEN Op("SLDLSS_Evaluate", "false", <<>>, <<>>, "none")
            ELSE IF ~TokenOk(t)
            THEN Op("SLDLSS_Evaluate", "false",
                    <<GetToken(FrameIndex(g_frameId), t)>>, <<>>, "none")
            ELSE Op("SLDLSS_Evaluate", "true",
                    <<GetToken(FrameIndex(g_frameId), t),
                      Call("slEvaluateFeature", 0,
                           TokenPtr(FrameIndex(g_frameId), t), r)>>,
                    <<>>, "none"))

\* r is the result of slEvaluateFeature.
SLDLSS_Evaluate(t, r) ==
    Observe(IF ~g_initialized \/ ~g_dlssSupported
            THEN Op("SLDLSS_Evaluate", "false", <<>>, <<>>, "none")
            ELSE IF ~TokenOk(t)
            THEN Op("SLDLSS_Evaluate", "false",
                    <<GetToken(FrameIndex(g_frameId), t)>>, <<>>, "none")
            ELSE Op("SLDLSS_Evaluate", Bool(r = eOk),
                    <<GetToken(FrameIndex(g_frameId), t),
                      Call("slEvaluateFeature", 0,
                           TokenPtr(FrameIndex(g_frameId), t), r)>>,
                    <<>>, "none"))

SLDLSS_PrepareEvaluate_KeepsFirst ==
    /\ g_dlssPending' = IF g_dlssPending.ready THEN g_dlssPending
                        ELSE [ready |-> TRUE,
                              frameIndex |-> FrameIndex(g_frameId)]
    /\ handoff' = Marked(FrameIndex(g_frameId))
    /\ lastOp' = Op("SLDLSS_PrepareEvaluate", "void", <<>>, <<>>, "none")
    /\ UNCHANGED <<flagVars, modeVars, g_frameId, g_dlssViewport, ifaceVars,
                   handleVars, errVars, envVars, g_callbackInvocationCount,
                   g_mutex, pc>>

SLDLSS_PrepareEvaluate ==
    /\ g_dlssPending' = [ready |-> TRUE, frameIndex |-> FrameIndex(g_frameId)]
    /\ handoff' = Marked(FrameIndex(g_frameId))
    /\ lastOp' = Op("SLDLSS_PrepareEvaluate", "void", <<>>, <<>>, "none")
    /\ UNCHANGED <<flagVars, modeVars, g_frameId, g_dlssViewport, ifaceVars,
                   handleVars, errVars, envVars, g_callbackInvocationCount,
                   g_mutex, pc>>

\* constexpr int kDLSSEventID_Evaluate = 0xD155E001: the 32-bit pattern
\* read as a signed int.
kDLSSEventID_Evaluate == -782901247

\* What CommandRecordingState gives: "fail", "nolist" (success with a null
\* command list) or "list".
RecordingStates == {"fail", "nolist", "list"}

\* bool shouldLog, n being g_callbackInvocationCount after the increment.
ShouldLog(n) == n <= 5 \/ n % 300 = 1

\* The handshake variables OnDLSSRenderEvent(eventID) reads: the log line
\* before the event-id test prints g_dlssPending.ready, and a matching
\* event tests it.
CallbackReads(eventID, n) ==
    IF ShouldLog(n) \/ eventID = kDLSSEventID_Evaluate
    THEN {"g_dlssPending.ready"}
    ELSE {}

CallbackRuns_IgnoresPending(eventID) == eventID = kDLSSEventID_Evaluate

\* The two tests OnDLSSRenderEvent(eventID) returns on without a write.
CallbackRuns(eventID) ==
    eventID = kDLSSEventID_Evaluate /\ g_dlssPending.ready

\* The exit a running callback takes: rec is the host's answer to
\* CommandRecordingState, t the result of slGetNewFrameToken.
CallbackPath(rec, t) ==
    IF ~g_initialized \/ ~g_dlssSupported THEN "uninit"
    ELSE IF s_D3D12v7_ptr = NullPtr THEN "nointerface"
    ELSE IF rec # "list" THEN "nolist"
    ELSE IF ~TokenOk(t) THEN "notoken"
    ELSE "evaluated"

CallbackPaths == {"uninit", "nointerface", "nolist", "notoken", "evaluated"}

ClearsPending_OnlyAfterEvaluate(path) == path = "evaluated"

\* g_dlssPending.ready = false stands before every return of a running
\* callback.
ClearsPending(path) == path \in CallbackPaths

CallbackFrameIndex_Current == FrameIndex(g_frameId)

\* The frame index the callback requests its token for (line 370).
CallbackFrameIndex == g_dlssPending.frameIndex

\* OnDLSSRenderEvent(eventID): r is the result of slEvaluateFeature.  The
\* host call records the command list returned, the evaluation the token
\* passed.
OnDLSSRenderEvent(eventID, rec, t, r) ==
    LET n == g_callbackInvocationCount + 1
        path == CallbackPath(rec, t)
        query == <<Call("CommandRecordingState", s_D3D12v7_ptr,
                        IF rec = "list" THEN 1 ELSE NullPtr,
                        IF rec = "fail" THEN 1 ELSE 0)>>
        token == GetToken(CallbackFrameIndex, t)
        op(sdk, hostCalls) ==
            [OpArg("OnDLSSRenderEvent", eventID, "void", sdk)
                EXCEPT !.host = hostCalls,
                       !.reads = CallbackReads(eventID, n)]
    IN  /\ g_callbackInvocationCount < MaxCallbacks
        /\ g_callbackInvocationCount' = n
        /\ IF ~CallbackRuns(eventID)
           THEN /\ lastOp' = op(<<>>, <<>>)
                /\ UNCHANGED <<g_dlssPending, handoff>>
           ELSE /\ g_dlssPending' =
                     [g_dlssPending EXCEPT
                         !.ready = IF ClearsPending(path) THEN FALSE ELSE @]
                /\ lastOp' =
                     CASE path \in {"uninit", "nointerface"} -> op(<<>>, <<>>)
                       [] path = "nolist" -> op(<<>>, query)
                       [] path = "notoken" -> op(<<token>>, query)
                       [] OTHER ->
                            op(<<token,
                                 Call("slEvaluateFeature", 0,
                                      TokenPtr(CallbackFrameIndex, t), r)>>,
                               query)
                /\ handoff' = IF path = "evaluated"
                              THEN Attempted(CallbackFrameIndex)
                              ELSE handoff
        /\ UNCHANGED <<flagVars, modeVars, g_frameId, g_dlssViewport,
                       ifaceVars, handleVars, errVars, envVars, g_mutex, pc>>


\* The same two operations statement by statement, the simulation thread
\* in SLDLSS_PrepareEvaluate and the render thread in a callback with the
\* evaluate id, on a session where the callback reaches slEvaluateFeature:
\* initialized, upscaling supported, D3D12 interface and command list
\* present, token granted.  g_dlssPending is a plain struct with no lock:
\* the threads' loads and stores interleave, and the two stores of prepare
\* reach memory in either order.  The history records a prepare, with the
\* frame index it is about to capture, at its first store.
Handshaking ==
    /\ g_initialized /\ g_dlssSupported /\ s_D3D12v7_ptr # NullPtr
    /\ pc["init"] = "idle" /\ pc["shut"] = "idle"

At(t, label) == pc[t] = label

Goto(t, label) == pc' = [pc EXCEPT ![t] = label]

stepVars == <<flagVars, modeVars, g_frameId, g_dlssViewport, ifaceVars,
              handleVars, errVars, envVars, g_mutex, lastOp>>

\* Line 314, g_dlssPending.ready = true.
Prepare_StoreReady ==
    /\ Handshaking
    /\ At("sim", "idle") \/ At("sim", "stored_index")
    /\ g_dlssPending' = [g_dlssPending EXCEPT !.ready = TRUE]
    /\ IF At("sim", "idle")
       THEN Goto("sim", "stored_ready")
            /\ handoff' = Marked(FrameIndex(g_frameId))
       ELSE Goto("sim", "idle") /\ UNCHANGED handoff
    /\ UNCHANGED <<stepVars, g_callbackInvocationCount>>

\* Line 315, g_dlssPending.frameIndex = (uint32_t)(g_frameId & 0xFFFFFFFF).
Prepare_StoreIndex ==
    /\ Handshaking
    /\ At("sim", "idle") \/ At("sim", "stored_ready")
    /\ g_dlssPending' =
         [g_dlssPending EXCEPT !.frameIndex = FrameIndex(g_frameId)]
    /\ IF At("sim", "idle")
       THEN Goto("sim", "stored_index")
            /\ handoff' = Marked(FrameIndex(g_frameId))
       ELSE Goto("sim", "idle") /\ UNCHANGED handoff
    /\ UNCHANGED <<stepVars, g_callbackInvocationCount>>

\* Lines 321-367: the counter, the test of the pending flag and the tests
\* a handshaking session passes.
Callback_Enter ==
    /\ Handshaking
    /\ At("render", "idle")
    /\ g_callbackInvocationCount < MaxCallbacks
    /\ g_callbackInvocationCount' = g_callbackInvocationCount + 1
    /\ IF CallbackRuns(kDLSSEventID_Evaluate)
       THEN Goto("render", "running")
       ELSE UNCHANGED pc
    /\ UNCHANGED <<stepVars, g_dlssPending, handoff>>

\* Line 370, slGetNewFrameToken(frameToken, &g_dlssPending.frameIndex).
Callback_GetToken ==
    /\ Handshaking
    /\ At("render", "running")
    /\ handoff' = [handoff EXCEPT !.token = g_dlssPending.frameIndex]
    /\ Goto("render", "token")
    /\ UNCHANGED <<stepVars, g_dlssPending, g_callbackInvocationCount>>

\* Line 383, slEvaluateFeature with the token.
Callback_Evaluate ==
    /\ Handshaking
    /\ At("render", "token")
    /\ handoff' = Attempted(handoff.token)
    /\ Goto("render", "evaluated")
    /\ UNCHANGED <<stepVars, g_dlssPending, g_callbackInvocationCount>>

\* Line 400, g_dlssPending.ready = false.
Callback_Clear ==
    /\ Handshaking
    /\ At("render", "evaluated")
    /\ g_dlssPending' = [g_dlssPending EXCEPT !.ready = FALSE]
    /\ Goto("render", "idle")
    /\ UNCHANGED <<stepVars, handoff, g_callbackInvocationCount>>


----------------------------------------------------------------------------
(* SLReflex_TryInitialize and SLReflex_Shutdown statement by statement *)

\* One thread in SLReflex_TryInitialize, which takes no lock, and another
\* in SLReflex_Shutdown, which holds g_mutex around ShutdownStreamline.
\* The flags are plain globals read and written by both: the accesses
\* interleave, and the stores of the chained assignment of line 172 reach
\* memory with g_initialized first or last.
lifeVars == <<g_numFramesToGenerate, g_dlssViewport, g_dlssPending,
              ifaceVars, handleVars, plugin, host, sdkReflex,
              g_callbackInvocationCount, handoff, lastOp>>

supportVars == <<g_reflexSupported, g_pclSupported, g_dlssSupported,
                 g_dlssgSupported>>

SetError(code, message) ==
    g_lastErrorCode' = code /\ g_lastErrorMessage' = message

\* SLReflex_TryInitialize, line 236, and the tests of lines 91-102.
Init_Enter ==
    /\ At("init", "idle")
    /\ IF g_initialized
       THEN UNCHANGED <<pc, errVars>>
       ELSE IF s_D3D12Device = NullPtr /\ s_D3D11Device = NullPtr
       THEN SetError(NoDeviceErrorCode, "No device") /\ UNCHANGED pc
       ELSE Goto("init", "entered") /\ UNCHANGED errVars
    /\ UNCHANGED <<lifeVars, flagVars, g_currentMode, g_dlssMode,
                   g_dlssgMode, g_frameId, g_mutex, sdkUp, everShutdown>>

\* Lines 129-136, slInit returning r.
Init_slInit(r) ==
    /\ At("init", "entered")
    /\ IF r = eOk
       THEN sdkUp' = TRUE /\ Goto("init", "inited") /\ UNCHANGED errVars
       ELSE /\ SetError(InitErrorCode(r), "slInit failed")
            /\ Goto("init", "idle")
            /\ UNCHANGED sdkUp
    /\ UNCHANGED <<lifeVars, flagVars, g_currentMode, g_dlssMode,
                   g_dlssgMode, g_frameId, g_mutex, everShutdown>>

\* Lines 138-146, slSetD3DDevice returning r, with slShutdown on failure.
Init_slSetD3DDevice(r) ==
    /\ At("init", "inited")
    /\ IF r = eOk
       THEN Goto("init", "bound") /\ UNCHANGED <<errVars, sdkUp>>
       ELSE /\ SetError(BindErrorCode(r), "slSetD3DDevice failed")
            /\ sdkUp' = FALSE
            /\ Goto("init", "idle")
    /\ UNCHANGED <<lifeVars, flagVars, g_currentMode, g_dlssMode,
                   g_dlssgMode, g_frameId, g_mutex, everShutdown>>

\* Lines 150-153, the four probes on an adapter that supports every
\* feature.
Init_Probe ==
    /\ At("init", "bound")
    /\ g_reflexSupported' = TRUE
    /\ g_pclSupported' = TRUE
    /\ g_dlssSupported' = TRUE
    /\ g_dlssgSupported' = TRUE
    /\ Goto("init", "probed")
    /\ UNCHANGED <<lifeVars, g_initialized, g_currentMode, g_dlssMode,
                   g_dlssgMode, g_frameId, errVars, g_mutex, sdkUp,
                   everShutdown>>

\* Line 159, g_initialized = true.
Init_SetInitialized ==
    /\ At("init", "probed")
    /\ g_initialized' = TRUE
    /\ Goto("init", "flagged")
    /\ UNCHANGED <<lifeVars, supportVars, g_currentMode, g_dlssMode,
                   g_dlssgMode, g_frameId, errVars, g_mutex, sdkUp,
                   everShutdown>>

\* Lines 160-164, the frame counter and the last-error pair.
Init_Finish ==
    /\ At("init", "flagged")
    /\ g_frameId' = 0
    /\ SetError(0, "OK")
    /\ Goto("init", "idle")
    /\ UNCHANGED <<lifeVars, flagVars, g_currentMode, g_dlssMode,
                   g_dlssgMode, g_mutex, sdkUp, everShutdown>>

\* SLReflex_Shutdown, line 238: the lock_guard, then the test of line 169;
\* a shutdown of a session that is not initialized unlocks and returns.
Shut_Lock ==
    /\ At("shut", "idle")
    /\ g_mutex = "free"
    /\ IF g_initialized
       THEN g_mutex' = "shut" /\ Goto("shut", "entered")
       ELSE UNCHANGED <<g_mutex, pc>>
    /\ UNCHANGED <<lifeVars, flagVars, g_currentMode, g_dlssMode,
                   g_dlssgMode, g_frameId, errVars, sdkUp, everShutdown>>

\* Line 171, slShutdown().
Shut_slShutdown ==
    /\ At("shut", "entered")
    /\ sdkUp' = FALSE
    /\ everShutdown' = TRUE
    /\ Goto("shut", "down")
    /\ UNCHANGED <<lifeVars, flagVars, g_currentMode, g_dlssMode,
                   g_dlssgMode, g_frameId, errVars, g_mutex>>

\* Line 172, the store to g_initialized.
Shut_ClearInitialized ==
    /\ At("shut", "down") \/ At("shut", "support_cleared")
    /\ g_initialized' = FALSE
    /\ Goto("shut", IF At("shut", "down") THEN "initialized_cleared"
                    ELSE "flags_cleared")
    /\ UNCHANGED <<lifeVars, supportVars, g_currentMode, g_dlssMode,
                   g_dlssgMode, g_frameId, errVars, g_mutex, sdkUp,
                   everShutdown>>

\* Line 172, the stores to the four support flags.
Shut_ClearSupport ==
    /\ At("shut", "down") \/ At("shut", "initialized_cleared")
    /\ g_reflexSupported' = FALSE
    /\ g_pclSupported' = FALSE
    /\ g_dlssSupported' = FALSE
    /\ g_dlssgSupported' = FALSE
    /\ Goto("shut", IF At("shut", "down") THEN "support_cleared"
                    ELSE "flags_cleared")
    /\ UNCHANGED <<lifeVars, g_initialized, g_currentMode, g_dlssMode,
                   g_dlssgMode, g_frameId, errVars, g_mutex, sdkUp,
                   everShutdown>>

\* Lines 173-176, the three modes, and the lock_guard's release.
Shut_ClearModes ==
    /\ At("shut", "flags_cleared")
    /\ g_currentMode' = 0
    /\ g_dlssMode' = 0
    /\ g_dlssgMode' = 0
    /\ g_mutex' = "free"
    /\ Goto("shut", "idle")
    /\ UNCHANGED <<lifeVars, flagVars, g_frameId, errVars, sdkUp,
                   everShutdown>>

----------------------------------------------------------------------------
(* Frame generation (StreamlineFrameGen.cpp) *)

SLDLSSG_SetOptions(mode, numFramesToGenerate, r) ==
    LET c == SetOptions("slDLSSGSetOptions", mode, r)
    IN  /\ g_dlssgMode' = IF c.ret THEN mode ELSE g_dlssgMode
        /\ g_numFramesToGenerate' =
              IF c.ret THEN numFramesToGenerate ELSE g_numFramesToGenerate
        /\ lastOp' = OpArg("SLDLSSG_SetOptions", mode, Bool(c.ret), c.sdk)
        /\ UNCHANGED <<flagVars, g_currentMode, g_dlssMode, frameVars,
                       ifaceVars, handleVars, errVars, threadVars, envVars>>

SLDLSSG_GetState(r) ==
    Observe(IF ~g_initialized
            THEN Op("SLDLSSG_GetState", "false", <<>>, <<>>, "none")
            ELSE Op("SLDLSSG_GetState", Bool(r = eOk),
                    <<Call("slDLSSGGetState", g_dlssViewport, 0, r)>>,
                    <<>>, "none"))

SLDLSSG_TagHUDLessColor(resource, t, r) ==
    TagResource("SLDLSSG_TagHUDLessColor", resource,
                kBufferTypeHUDLessColor, t, r)

SLDLSSG_TagUIColorAndAlpha(resource, t, r) ==
    TagResource("SLDLSSG_TagUIColorAndAlpha", resource,
                kBufferTypeUIColorAndAlpha, t, r)

----------------------------------------------------------------------------
(* Legacy wrappers and presets (StreamlineDLSSLegacy.cpp) *)

\* What one legacy call gets from the SDK: the result of
\* slGetFeatureFunction, whether the function pointer it stored is null,
\* and the result r of the resolved function (eOk where it is not called).
LegacyResults ==
    {[fn |-> eOk, null |-> FALSE, r |-> r] : r \in SlResults}
    \cup {[fn |-> eOk, null |-> TRUE, r |-> eOk]}
    \cup {[fn |-> e, null |-> TRUE, r |-> eOk] : e \in SlErrors}

Resolved(x) == x.fn = eOk /\ ~x.null

\* A legacy call through slGetFeatureFunction: guard is its precondition,
\* feature the feature index asked for, f the function resolved, called
\* with viewport 0 and the argument b.  The lookup is recorded with the
\* function pointer it stored.
LegacyCall(guard, feature, f, b, x) ==
    IF ~guard THEN [ret |-> FALSE, sdk |-> <<>>]
    ELSE IF ~Resolved(x)
    THEN [ret |-> FALSE,
          sdk |-> <<Call("slGetFeatureFunction", feature,
                         IF x.null THEN NullPtr ELSE 1, x.fn)>>]
    ELSE [ret |-> x.r = eOk,
          sdk |-> <<Call("slGetFeatureFunction", feature, 1, x.fn),
                    Call(f, 0, b, x.r)>>]

SLDLSS_GetOptimalSettingsLegacy(outGiven, mode, x) ==
    LET c == LegacyCall(outGiven /\ g_initialized /\ g_dlssSupported, 2,
                        "slDLSSGetOptimalSettings", mode, x)
    IN  Observe([OpArg("SLDLSS_GetOptimalSettingsLegacy", mode,
                       Bool(c.ret), c.sdk)
                 EXCEPT !.out = IF c.ret THEN Filled ELSE Untouched])

\* SLDLSS_SetMode(mode) as a function of the state it runs in.
SetMode(mode, x) ==
    LegacyCall(g_initialized /\ g_dlssSupported, 2, "slDLSSSetOptions",
               mode, x)

\* SLDLSSG_SetMode(mode, numFramesToGenerate) likewise.
SetGMode(mode, x) ==
    LegacyCall(g_initialized /\ g_dlssgSupported, 3, "slDLSSGSetOptions",
               mode, x)

\* Store the outcome of a legacy setter or preset: the DLSS mode, the
\* frame-generation mode and the number of frames to generate.
SetModes(name, arg, ret, sdk, dm, gm, n) ==
    /\ g_dlssMode' = dm
    /\ g_dlssgMode' = gm
    /\ g_numFramesToGenerate' = n
    /\ lastOp' = OpArg(name, arg, Bool(ret), sdk)
    /\ UNCHANGED <<flagVars, g_currentMode, frameVars, ifaceVars,
                   handleVars, errVars, threadVars, envVars>>

SLDLSS_SetMode(mode, x) ==
    LET c == SetMode(mode, x)
    IN  SetModes("SLDLSS_SetMode", mode, c.ret, c.sdk,
                 IF c.ret THEN mode ELSE g_dlssMode, g_dlssgMode,
                 g_numFramesToGenerate)

SLDLSSG_SetMode(mode, numFramesToGenerate, x) ==
    LET c == SetGMode(mode, x)
    IN  SetModes("SLDLSSG_SetMode", mode, c.ret, c.sdk, g_dlssMode,
                 IF c.ret THEN mode ELSE g_dlssgMode,
                 IF c.ret THEN numFramesToGenerate
                 ELSE g_numFramesToGenerate)

SLDLSSG_GetStateLegacy(outGiven, x) ==
    LET c == LegacyCall(outGiven /\ g_initialized /\ g_dlssgSupported, 3,
                        "slDLSSGGetState", 0, x)
    IN  Observe(Op("SLDLSSG_GetStateLegacy", Bool(c.ret), c.sdk, <<>>,
                   "none"))

EnablePreset_AllOrNothing(name, dlssMode, frames, x, y) ==
    LET a == SetMode(dlssMode, x)
        b == SetGMode(1, y)
    IN  IF ~a.ret
        THEN SetModes(name, 0, FALSE, a.sdk, g_dlssMode, g_dlssgMode,
                      g_numFramesToGenerate)
        ELSE SetModes(name, 0, b.ret, a.sdk \o b.sdk, dlssMode,
                      IF b.ret THEN 1 ELSE g_dlssgMode,
                      IF b.ret THEN frames ELSE g_numFramesToGenerate)

\* The two enabling presets: SLDLSS_SetMode(dlssMode), then
\* SLDLSSG_SetMode(1, frames) unless the first failed.
EnablePreset(name, dlssMode, frames, x, y) ==
    LET a == SetMode(dlssMode, x)
        b == SetGMode(1, y)
    IN  IF ~a.ret
        THEN SetModes(name, 0, FALSE, a.sdk, g_dlssMode, g_dlssgMode,
                      g_numFramesToGenerate)
        ELSE SetModes(name, 0, TRUE, a.sdk \o b.sdk, dlssMode,
                      IF b.ret THEN 1 ELSE g_dlssgMode,
                      IF b.ret THEN frames ELSE g_numFramesToGenerate)

SLStreamline_EnableDLSSQualityWithFrameGen2x(x, y) ==
    EnablePreset("SLStreamline_EnableDLSSQualityWithFrameGen2x", 3, 1, x, y)

SLStreamline_EnableDLSSPerformanceWithFrameGen3x(x, y) ==
    EnablePreset("SLStreamline_EnableDLSSPerformanceWithFrameGen3x", 1, 2,
                 x, y)

\* A disabling preset that gives up after a failed first sub-call.
SLStreamline_DisableDLSSAndFrameGen_StopsAtFirst(x, y) ==
    LET b == SetGMode(0, x)
        a == SetMode(0, y)
    IN  IF ~b.ret
        THEN SetModes("SLStreamline_DisableDLSSAndFrameGen", 0, FALSE,
                      b.sdk, g_dlssMode, g_dlssgMode, g_numFramesToGenerate)
        ELSE SetModes("SLStreamline_DisableDLSSAndFrameGen", 0, a.ret,
                      b.sdk \o a.sdk,
                      IF a.ret THEN 0 ELSE g_dlssMode, 0, 0)

\* SLDLSSG_SetMode(0, 0), then SLDLSS_SetMode(0) whatever the first
\* returned; x and y are what the two get from the SDK.
SLStreamline_DisableDLSSAndFrameGen(x, y) ==
    LET b == SetGMode(0, x)
        a == SetMode(0, y)
    IN  SetModes("SLStreamline_DisableDLSSAndFrameGen", 0, b.ret /\ a.ret,
                 b.sdk \o a.sdk,
                 IF a.ret THEN 0 ELSE g_dlssMode,
                 IF b.ret THEN 0 ELSE g_dlssgMode,
                 IF b.ret THEN 0 ELSE g_numFramesToGenerate)

----------------------------------------------------------------------------
(* A legacy setter step by step (StreamlineDLSSLegacy.cpp) *)

\* One thread in a legacy setter and another in SLReflex_Shutdown.  The
\* setter tests the flags first and takes g_mutex afterwards; what it does
\* under the lock is one step, the shutdown holding the same lock around
\* ShutdownStreamline.
setVars == <<flagVars, g_currentMode, frameVars, ifaceVars, handleVars,
             errVars, envVars, g_callbackInvocationCount, handoff>>

\* SLDLSS_SetMode, lines 122-126: the test, made before the lock is taken.
SetMode_Test ==
    /\ At("set", "idle")
    /\ IF g_initialized /\ g_dlssSupported
       THEN Goto("set", "dlss_tested")
       ELSE UNCHANGED pc
    /\ UNCHANGED <<setVars, g_dlssMode, g_dlssgMode, g_numFramesToGenerate,
                   g_mutex, lastOp>>

\* SLDLSS_SetMode, lines 128-154: the lock_guard, the lookup, the setter
\* call, the store of the mode, the release.
SetMode_Locked(mode, x) ==
    /\ At("set", "dlss_tested")
    /\ g_mutex = "free"
    /\ LET c == LegacyCall(TRUE, 2, "slDLSSSetOptions", mode, x)
       IN  /\ g_dlssMode' = IF c.ret THEN mode ELSE g_dlssMode
           /\ lastOp' = OpArg("SLDLSS_SetMode", mode, Bool(c.ret), c.sdk)
    /\ Goto("set", "idle")
    /\ UNCHANGED <<setVars, g_dlssgMode, g_numFramesToGenerate, g_mutex>>

\* SLDLSSG_SetMode, lines 168-172.
SetGMode_Test ==
    /\ At("set", "idle")
    /\ IF g_initialized /\ g_dlssgSupported
       THEN Goto("set", "dlssg_tested")
       ELSE UNCHANGED pc
    /\ UNCHANGED <<setVars, g_dlssMode, g_dlssgMode, g_numFramesToGenerate,
                   g_mutex, lastOp>>

\* SLDLSSG_SetMode, lines 174-202.
SetGMode_Locked(mode, numFramesToGenerate, x) ==
    /\ At("set", "dlssg_tested")
    /\ g_mutex = "free"
    /\ LET c == LegacyCall(TRUE, 3, "slDLSSGSetOptions", mode, x)
       IN  /\ g_dlssgMode' = IF c.ret THEN mode ELSE g_dlssgMode
           /\ g_numFramesToGenerate' =
                 IF c.ret THEN numFramesToGenerate
                 ELSE g_numFramesToGenerate
           /\ lastOp' = OpArg("SLDLSSG_SetMode", mode, Bool(c.ret), c.sdk)
    /\ Goto("set", "idle")
    /\ UNCHANGED <<setVars, g_dlssMode, g_mutex>>

----------------------------------------------------------------------------
(* Specification *)

\* The caller is sequential: an operation or host event starts when the
\* previous one has returned.  Returned keeps of the previous operation
\* only whether it was one of the shutdown paths.
ShutdownOps == {"SLReflex_Shutdown", "OnGraphicsDeviceEvent_Shutdown",
                "UnityPluginUnload"}

Idle == lastOp.name \in {"none", "returned_shutdown"}

Return ==
    /\ ~Idle
    /\ lastOp' = Op(IF lastOp.name \in ShutdownOps THEN "returned_shutdown"
                    ELSE "none", "void", <<>>, <<>>, "none")
    /\ UNCHANGED <<flagVars, modeVars, frameVars, ifaceVars, handleVars,
                   errVars, threadVars, envVars>>

\* Inputs of the exported operations.
MarkerSamples == {-1, 0, 7, eMaximum - 1, eMaximum, eMaximum + 1}
ReflexModeInputs == {0, 2, 3}
DlssModeInputs == {0, 3}
ViewportInputs == {0, 1}
EventIds == {kDLSSEventID_Evaluate, 0}
ResourceInputs == {NullPtr, 1}

InitInputs == InitResults(SampleProbes)

\* Host events, plugin entry points and the lifecycle API.
Lifecycle ==
    \/ Idle /\ \E cfg \in HostConfigs(host.epoch + 1) : HostCreateDevice(cfg)
    \/ Idle /\ \E g \in BOOLEAN, sl \in InitInputs : UnityPluginLoad(g, sl)
    \/ Idle /\ UnityPluginUnload
    \/ Idle /\ \E sl \in InitInputs : OnGraphicsDeviceEvent_Initialize(sl)
    \/ Idle /\ OnGraphicsDeviceEvent_Shutdown
    \/ Idle /\ \E sl \in InitInputs : SLReflex_TryInitialize(sl)
    \/ Idle /\ \E sl \in InitInputs : SLReflex_Initialize(sl)
    \/ Idle /\ SLReflex_Shutdown

FrameOps ==
    \/ Idle /\ SLReflex_BeginFrame
    \/ Idle /\ \E t \in TokenResults : SLReflex_Sleep(t)
    \/ Idle /\ \E m \in MarkerSamples, t \in TokenResults :
                  SLReflex_SetMarker(m, t)

\* The feature operations before initialization and after shutdown.
Before == Idle /\ ~g_initialized

BeforeOps ==
    \/ Before /\ SLReflex_BeginFrame
    \/ Before /\ SLDLSS_BeginFrame
    \/ Before /\ \E t \in TokenResults : SLReflex_Sleep(t)
    \/ Before /\ \E m \in MarkerSamples, t \in TokenResults :
                  SLReflex_SetMarker(m, t)
    \/ Before /\ \E m \in ReflexModeInputs, r \in SlResults :
                  SLReflex_SetMode(m, r)
    \/ Before /\ \E r \in SlResults : SLReflex_GetState(r)
    \/ Before /\ \E g \in BOOLEAN, r \in SlResults :
                  SLReflex_GetLatencyStats(g, r)
    \/ Before /\ \E t \in TokenResults, r \in SlResults :
                  SLDLSS_SetConstants(t, r)
    \/ Before /\ \E h \in ResourceInputs, t \in TokenResults, r \in SlResults :
                  SLDLSS_TagResourceD3D12(h, kBufferTypeHUDLessColor, t, r)
    \/ Before /\ \E m \in DlssModeInputs, r \in SlResults :
                  SLDLSS_SetOptions(m, r)
    \/ Before /\ \E m \in DlssModeInputs, r \in SlResults :
                  SLDLSS_GetOptimalSettings(m, r)
    \/ Before /\ \E t \in TokenResults, r \in SlResults : SLDLSS_Evaluate(t, r)
    \/ Before /\ \E m \in {0, 1}, r \in SlResults :
                  SLDLSSG_SetOptions(m, m + m, r)
    \/ Before /\ \E r \in SlResults : SLDLSSG_GetState(r)
    \/ Before /\ \E h \in ResourceInputs, t \in TokenResults, r \in SlResults :
                  SLDLSSG_TagHUDLessColor(h, t, r)
    \/ Before /\ \E h \in ResourceInputs, t \in TokenResults, r \in SlResults :
                  SLDLSSG_TagUIColorAndAlpha(h, t, r)
    \/ Before /\ \E g \in BOOLEAN, m \in DlssModeInputs, x \in LegacyResults :
                  SLDLSS_GetOptimalSettingsLegacy(g, m, x)
    \/ Before /\ \E m \in DlssModeInputs, x \in LegacyResults :
                  SLDLSS_SetMode(m, x)
    \/ Before /\ \E m \in {0, 1}, x \in LegacyResults :
                  SLDLSSG_SetMode(m, m, x)
    \/ Before /\ \E g \in BOOLEAN, x \in LegacyResults :
                  SLDLSSG_GetStateLegacy(g, x)
    \/ Before /\ \E x \in LegacyResults, y \in LegacyResults :
                  SLStreamline_EnableDLSSQualityWithFrameGen2x(x, y)
    \/ Before /\ \E x \in LegacyResults, y \in LegacyResults :
                  SLStreamline_EnableDLSSPerformanceWithFrameGen3x(x, y)
    \/ Before /\ \E x \in LegacyResults, y \in LegacyResults :
                  SLStreamline_DisableDLSSAndFrameGen(x, y)

\* One host device after another, each a D3D12 device behind the v7
\* interface on an adapter that supports every feature.
SessionInputs == InitResults({AllSupported})

SessionCycle ==
    \/ Idle /\ HostCreateDevice([epoch |-> host.epoch + 1,
                                 renderer |-> "D3D12", v7 |-> TRUE,
                                 v6 |-> TRUE, d3d11 |-> FALSE])
    \/ Idle /\ \E sl \in SessionInputs : UnityPluginLoad(TRUE, sl)
    \/ Idle /\ \E sl \in SessionInputs : OnGraphicsDeviceEvent_Initialize(sl)
    \/ Idle /\ OnGraphicsDeviceEvent_Shutdown
    \/ Idle /\ \E sl \in SessionInputs : SLReflex_TryInitialize(sl)
    \/ Idle /\ SLReflex_Shutdown

\* What a session leaves behind in the state once it is shut down: the
\* frame counter, the viewport, the pending evaluation, the frame count.
TraceOps ==
    \/ Idle /\ g_initialized /\ SLReflex_BeginFrame
    \/ Idle /\ \E v \in ViewportInputs : SLDLSS_SetViewport(v)
    \/ Idle /\ SLDLSS_PrepareEvaluate
    \/ Idle /\ g_initialized /\ \E r \in SlResults :
                  SLDLSSG_SetOptions(0, 2, r)

\* The device lifecycle under every host, with the frame operations.
Next ==
    \/ Lifecycle
    \/ FrameOps
    \/ Return

Spec == Init /\ [][Next]_vars

\* The lifecycle with every feature operation called while the session is
\* not initialized.
NextBefore ==
    \/ SessionCycle
    \/ BeforeOps
    \/ TraceOps
    \/ Return

SpecBefore == Init /\ [][NextBefore]_vars

\* The deferred evaluation: prepare on the simulation thread, the render
\* callback with every answer of the host and the SDK, on sessions with
\* and without upscaling support and a D3D12 interface.
DeferredInputs ==
    InitResults({AllSupported, Probes(eOk, eOk, Unsupported, eOk)})

NextDeferred ==
    \/ Idle /\ \E cfg \in {c \in HostConfigs(host.epoch + 1) :
                              c.v7 \/ c.d3d11} : HostCreateDevice(cfg)
    \/ Idle /\ \E sl \in DeferredInputs : UnityPluginLoad(TRUE, sl)
    \/ Idle /\ SLReflex_Shutdown
    \/ Idle /\ SLReflex_BeginFrame
    \/ Idle /\ SLDLSS_PrepareEvaluate
    \/ Idle /\ \E e \in EventIds, rec \in RecordingStates,
                  t \in TokenResults, r \in SlResults :
                  OnDLSSRenderEvent(e, rec, t, r)
    \/ Return

SpecDeferred == Init /\ [][NextDeferred]_vars

\* The deferred evaluation across sessions and device bindings: the host
\* replaces its device, the session is shut down and started again.
RebindInputs == InitResults({AllSupported})

NextRebind ==
    \/ Idle /\ \E cfg \in {c \in HostConfigs(host.epoch + 1) :
                              c.v7 \/ c.v6 \/ c.d3d11} :
                  HostCreateDevice(cfg)
    \/ Idle /\ \E sl \in RebindInputs : UnityPluginLoad(TRUE, sl)
    \/ Idle /\ \E sl \in RebindInputs :
                  OnGraphicsDeviceEvent_Initialize(sl)
    \/ Idle /\ OnGraphicsDeviceEvent_Shutdown
    \/ Idle /\ \E sl \in RebindInputs : SLReflex_TryInitialize(sl)
    \/ Idle /\ SLReflex_Shutdown
    \/ Idle /\ SLReflex_BeginFrame
    \/ Idle /\ SLDLSS_PrepareEvaluate
    \/ Idle /\ \E rec \in RecordingStates, t \in TokenResults :
                  OnDLSSRenderEvent(kDLSSEventID_Evaluate, rec, t, eOk)
    \/ Return

SpecRebind == Init /\ [][NextRebind]_vars

\* The legacy mode setters and the presets on sessions with upscaling,
\* with and without frame generation, under every answer of the SDK.
PresetInputs ==
    InitResults({AllSupported, Probes(eOk, eOk, eOk, Unsupported)})

NextPresets ==
    \/ Idle /\ HostCreateDevice([epoch |-> host.epoch + 1,
                                 renderer |-> "D3D12", v7 |-> TRUE,
                                 v6 |-> TRUE, d3d11 |-> FALSE])
    \/ Idle /\ \E sl \in PresetInputs : UnityPluginLoad(TRUE, sl)
    \/ Idle /\ SLReflex_Shutdown
    \/ Idle /\ \E m \in DlssModeInputs, x \in LegacyResults :
                  SLDLSS_SetMode(m, x)
    \/ Idle /\ \E m \in {0, 1}, x \in LegacyResults :
                  SLDLSSG_SetMode(m, m, x)
    \/ Idle /\ \E x \in LegacyResults, y \in LegacyResults :
                  SLStreamline_EnableDLSSQualityWithFrameGen2x(x, y)
    \/ Idle /\ \E x \in LegacyResults, y \in LegacyResults :
                  SLStreamline_EnableDLSSPerformanceWithFrameGen3x(x, y)
    \/ Idle /\ \E x \in LegacyResults, y \in LegacyResults :
                  SLStreamline_DisableDLSSAndFrameGen(x, y)
    \/ Return

SpecPresets == Init /\ [][NextPresets]_vars

\* The feature operations on an initialized session, on adapters with
\* every combination of supported features and under every answer of the
\* SDK.
During == Idle /\ g_initialized

DuringOps ==
    \/ During /\ \E t \in TokenResults : SLReflex_Sleep(t)
    \/ During /\ \E m \in MarkerSamples, t \in TokenResults :
                  SLReflex_SetMarker(m, t)
    \/ During /\ \E m \in ReflexModeInputs, r \in SlResults :
                  SLReflex_SetMode(m, r)
    \/ During /\ \E r \in SlResults : SLReflex_GetState(r)
    \/ During /\ \E g \in BOOLEAN, r \in SlResults :
                  SLReflex_GetLatencyStats(g, r)
    \/ During /\ \E t \in TokenResults, r \in SlResults :
                  SLDLSS_SetConstants(t, r)
    \/ During /\ \E h \in ResourceInputs, t \in TokenResults, r \in SlResults :
                  SLDLSS_TagResourceD3D12(h, kBufferTypeHUDLessColor, t, r)
    \/ During /\ \E m \in DlssModeInputs, r \in SlResults :
                  SLDLSS_SetOptions(m, r)
    \/ During /\ \E m \in DlssModeInputs, r \in SlResults :
                  SLDLSS_GetOptimalSettings(m, r)
    \/ During /\ \E t \in TokenResults, r \in SlResults : SLDLSS_Evaluate(t, r)
    \/ During /\ \E m \in {0, 1}, r \in SlResults :
                  SLDLSSG_SetOptions(m, m + m, r)
    \/ During /\ \E r \in SlResults : SLDLSSG_GetState(r)
    \/ During /\ \E h \in ResourceInputs, t \in TokenResults, r \in SlResults :
                  SLDLSSG_TagHUDLessColor(h, t, r)
    \/ During /\ \E h \in ResourceInputs, t \in TokenResults, r \in SlResults :
                  SLDLSSG_TagUIColorAndAlpha(h, t, r)
    \/ During /\ \E g \in BOOLEAN, m \in DlssModeInputs, x \in LegacyResults :
                  SLDLSS_GetOptimalSettingsLegacy(g, m, x)
    \/ During /\ \E m \in DlssModeInputs, x \in LegacyResults :
                  SLDLSS_SetMode(m, x)
    \/ During /\ \E m \in {0, 1}, x \in LegacyResults :
                  SLDLSSG_SetMode(m, m, x)
    \/ During /\ \E g \in BOOLEAN, x \in LegacyResults :
                  SLDLSSG_GetStateLegacy(g, x)
    \/ During /\ \E x \in LegacyResults, y \in LegacyResults :
                  SLStreamline_DisableDLSSAndFrameGen(x, y)

FeatureInputs == InitResults(AllProbes)

NextFeatures ==
    \/ Idle /\ HostCreateDevice([epoch |-> host.epoch + 1,
                                 renderer |-> "D3D12", v7 |-> TRUE,
                                 v6 |-> TRUE, d3d11 |-> FALSE])
    \/ Idle /\ \E sl \in FeatureInputs : UnityPluginLoad(TRUE, sl)
    \/ Idle /\ SLReflex_Shutdown
    \/ DuringOps
    \/ Return

SpecFeatures == Init /\ [][NextFeatures]_vars

\* The handshake under every interleaving of the two threads, frame after
\* frame, on one session initialized on a D3D12 device behind the v7
\* interface with every feature supported.
HandshakeInputs ==
    {sl \in SessionInputs : sl.init = eOk /\ sl.bind = eOk}

NextHandshake ==
    \/ Idle /\ HostCreateDevice([epoch |-> host.epoch + 1,
                                 renderer |-> "D3D12", v7 |-> TRUE,
                                 v6 |-> TRUE, d3d11 |-> FALSE])
    \/ Idle /\ \E sl \in HandshakeInputs : UnityPluginLoad(TRUE, sl)
    \/ Idle /\ At("sim", "idle") /\ SLReflex_BeginFrame
    \/ Idle /\ Prepare_StoreReady
    \/ Idle /\ Prepare_StoreIndex
    \/ Idle /\ Callback_Enter
    \/ Idle /\ Callback_GetToken
    \/ Idle /\ Callback_Evaluate
    \/ Idle /\ Callback_Clear
    \/ Return

SpecHandshake == Init /\ [][NextHandshake]_vars

\* An initialization request and a shutdown request on two threads, under
\* every interleaving, on a host with a D3D12 device behind the v7
\* interface.
Settled == Idle /\ At("sim", "idle") /\ At("render", "idle")

NextTransition ==
    \/ Idle /\ HostCreateDevice([epoch |-> host.epoch + 1,
                                 renderer |-> "D3D12", v7 |-> TRUE,
                                 v6 |-> TRUE, d3d11 |-> FALSE])
    \/ Idle /\ \E sl \in SessionInputs : UnityPluginLoad(TRUE, sl)
    \/ Settled /\ Init_Enter
    \/ Settled /\ \E r \in SlResults : Init_slInit(r)
    \/ Settled /\ \E r \in SlResults : Init_slSetD3DDevice(r)
    \/ Settled /\ Init_Probe
    \/ Settled /\ Init_SetInitialized
    \/ Settled /\ Init_Finish
    \/ Settled /\ Shut_Lock
    \/ Settled /\ Shut_slShutdown
    \/ Settled /\ Shut_ClearInitialized
    \/ Settled /\ Shut_ClearSupport
    \/ Settled /\ Shut_ClearModes
    \/ Return

SpecTransition == Init /\ [][NextTransition]_vars

\* A legacy setter on one thread and SLReflex_Shutdown on another, between
\* sessions set up and initialized again while both threads are idle.
Quiet == Idle /\ \A t \in Threads : At(t, "idle")

NextSetterRace ==
    \/ Quiet /\ HostCreateDevice([epoch |-> host.epoch + 1,
                                  renderer |-> "D3D12", v7 |-> TRUE,
                                  v6 |-> TRUE, d3d11 |-> FALSE])
    \/ Quiet /\ \E sl \in SessionInputs : UnityPluginLoad(TRUE, sl)
    \/ Quiet /\ \E sl \in SessionInputs : SLReflex_TryInitialize(sl)
    \/ Idle /\ SetMode_Test
    \/ Idle /\ \E m \in DlssModeInputs, x \in LegacyResults :
                  SetMode_Locked(m, x)
    \/ Idle /\ SetGMode_Test
    \/ Idle /\ \E m \in {0, 1}, x \in LegacyResults :
                  SetGMode_Locked(m, m + m, x)
    \/ Idle /\ Shut_Lock
    \/ Idle /\ Shut_slShutdown
    \/ Idle /\ Shut_ClearInitialized
    \/ Idle /\ Shut_ClearSupport
    \/ Idle /\ Shut_ClearModes
    \/ Return

SpecSetterRace == Init /\ [][NextSetterRace]_vars

\* The two begin-frame entry points over sessions that start, are shut
\* down and start again.
\* Event ids given to the Reflex render-event callback.
EventInputs == (-1 .. 6) \cup {kDLSSEventID_Evaluate}

NextFrames ==
    \/ Idle /\ HostCreateDevice([epoch |-> host.epoch + 1,
                                 renderer |-> "D3D12", v7 |-> TRUE,
                                 v6 |-> TRUE, d3d11 |-> FALSE])
    \/ Idle /\ \E sl \in DeferredInputs : UnityPluginLoad(TRUE, sl)
    \/ Idle /\ \E sl \in SessionInputs : SLReflex_TryInitialize(sl)
    \/ Idle /\ OnGraphicsDeviceEvent_Shutdown
    \/ Idle /\ SLReflex_Shutdown
    \/ Idle /\ SLReflex_BeginFrame
    \/ Idle /\ SLDLSS_BeginFrame
    \/ Idle /\ \E e \in EventInputs, ts \in TokenResults, tm \in TokenResults :
                  OnRenderEvent(e, ts, tm)
    \/ Idle /\ \E v \in ViewportInputs : SLDLSS_SetViewport(v)
    \/ Idle /\ \E m \in ReflexModeInputs, r \in SlResults :
                  SLReflex_SetMode(m, r)
    \/ Idle /\ SLReflex_GetMode
    \/ Idle /\ SLDLSS_GetMode
    \/ Idle /\ SLDLSSG_GetMode
    \/ Idle /\ \E m \in DlssModeInputs, r \in SlResults :
                  SLDLSS_SetOptions(m, r)
    \/ Idle /\ \E m \in DlssModeInputs, x \in LegacyResults :
                  SLDLSS_SetMode(m, x)
    \/ Idle /\ \E m \in {0, 1}, r \in SlResults :
                  SLDLSSG_SetOptions(m, m + m, r)
    \/ Idle /\ \E m \in {0, 1}, x \in LegacyResults :
                  SLDLSSG_SetMode(m, m + m, x)
    \/ Idle /\ \E m \in DlssModeInputs, r \in SlResults :
                  SLDLSS_GetOptimalSettings(m, r)
    \/ Idle /\ \E g \in BOOLEAN, m \in DlssModeInputs, x \in LegacyResults :
                  SLDLSS_GetOptimalSettingsLegacy(g, m, x)
    \/ Idle /\ \E t \in TokenResults, r \in SlResults : SLDLSS_Evaluate(t, r)
    \/ Idle /\ \E h \in ResourceInputs, t \in TokenResults, r \in SlResults :
                  SLDLSS_TagResourceD3D12(h, kBufferTypeHUDLessColor, t, r)
    \/ Idle /\ \E h \in ResourceInputs, t \in TokenResults, r \in SlResults :
                  SLDLSSG_TagHUDLessColor(h, t, r)
    \/ Idle /\ \E h \in ResourceInputs, t \in TokenResults, r \in SlResults :
                  SLDLSSG_TagUIColorAndAlpha(h, t, r)
    \/ Return

SpecFrames == Init /\ [][NextFrames]_vars

\* Latency statistics read over every report ring the SDK can hold, on a
\* session bound to one D3D12 device.
InitStats ==
    \E available \in BOOLEAN, ring \in Rings :
        InitWith([available |-> available, ring |-> ring])

NextStats ==
    \/ Idle /\ HostCreateDevice([epoch |-> host.epoch + 1,
                                 renderer |-> "D3D12", v7 |-> TRUE,
                                 v6 |-> TRUE, d3d11 |-> FALSE])
    \/ Idle /\ \E sl \in SessionInputs : UnityPluginLoad(TRUE, sl)
    \/ Idle /\ SLReflex_Shutdown
    \/ Idle /\ \E g \in BOOLEAN, r \in SlResults :
                  SLReflex_GetLatencyStats(g, r)
    \/ Return

SpecStats == InitStats /\ [][NextStats]_vars

\* Initialization attempts failing with every result code of the SDK.
ResultCodes == 0..MaxResultCode

ErrorInputs ==
    {[init |-> i, bind |-> eOk, reflex |-> eOk, pcl |-> eOk, dlss |-> eOk,
      dlssg |-> eOk] : i \in ResultCodes}
    \cup
    {[init |-> eOk, bind |-> b, reflex |-> eOk, pcl |-> eOk, dlss |-> eOk,
      dlssg |-> eOk] : b \in ResultCodes}

NextErr ==
    \/ Idle /\ HostCreateDevice([epoch |-> host.epoch + 1,
                                 renderer |-> "D3D12", v7 |-> TRUE,
                                 v6 |-> TRUE, d3d11 |-> FALSE])
    \/ Idle /\ \E g \in BOOLEAN, sl \in ErrorInputs : UnityPluginLoad(g, sl)
    \/ Idle /\ \E sl \in ErrorInputs : OnGraphicsDeviceEvent_Initialize(sl)
    \/ Idle /\ OnGraphicsDeviceEvent_Shutdown
    \/ Idle /\ \E sl \in ErrorInputs : SLReflex_TryInitialize(sl)
    \/ Return

SpecErr == Init /\ [][NextErr]_vars


----------------------------------------------------------------------------
(* Properties of the device lifecycle *)

\* The calls of entry point f with first argument a that returned eOk.
Succeeded(calls, f, a) ==
    \E i \in 1..Len(calls) :
        calls[i].f = f /\ calls[i].a = a /\ calls[i].r = eOk

\* The calls of entry point f that returned an error.
Failed(calls, f) ==
    \E i \in 1..Len(calls) : calls[i].f = f /\ calls[i].r # eOk

FeatureOps ==
    {"SLReflex_SetMode", "SLReflex_GetState", "SLReflex_Sleep",
     "SLReflex_SetMarker", "SLReflex_BeginFrame", "SLDLSS_BeginFrame",
     "SLReflex_GetLatencyStats", "SLDLSS_SetConstants",
     "SLDLSS_TagResourceD3D12", "SLDLSS_SetOptions",
     "SLDLSS_GetOptimalSettings", "SLDLSS_Evaluate", "SLDLSSG_SetOptions",
     "SLDLSSG_GetState", "SLDLSSG_TagHUDLessColor",
     "SLDLSSG_TagUIColorAndAlpha", "SLDLSS_GetOptimalSettingsLegacy",
     "SLDLSS_SetMode", "SLDLSSG_SetMode", "SLDLSSG_GetStateLegacy",
     "SLStreamline_EnableDLSSQualityWithFrameGen2x",
     "SLStreamline_EnableDLSSPerformanceWithFrameGen3x",
     "SLStreamline_DisableDLSSAndFrameGen"}

\* C1: in every state where the session is not initialized, an exported
\* feature operation returns false (or nothing, if it is void), makes no
\* SDK call, stores nothing in the caller's record and writes no variable
\* of the session.
C1_UninitializedFeatureOpsAreInert ==
    [][(~g_initialized /\ lastOp'.name \in FeatureOps) =>
          /\ lastOp'.ret \in {"false", "void"}
          /\ lastOp'.sdk = <<>>
          /\ lastOp'.out = Untouched
          /\ UNCHANGED <<flagVars, modeVars, frameVars, handleVars,
                         errVars, sdkUp>>]_vars

\* A feature operation refused after a session that counted frames was
\* shut down.
C1_Witness ==
    /\ lastOp.name = "SLDLSS_Evaluate"
    /\ lastOp.ret = "false"
    /\ ~g_initialized
    /\ everShutdown
    /\ g_frameId > 0

AccessorNames == {"Get_IUnityGraphicsD3D12v7", "Get_IUnityGraphicsD3D12v6",
                  "Get_IUnityGraphicsD3D11"}

\* The accessor requests among the host calls of an operation, in order.
Accessors(hostCalls) == SelectSeq(hostCalls, LAMBDA c : c.f \in AccessorNames)

\* C2: a device-initialize event on a D3D11 renderer requests the D3D11
\* accessor and neither D3D12 interface; on a D3D12 renderer it requests
\* v7 first, v6 exactly once and only if v7 is absent, and never the D3D11
\* accessor.
C2_AccessorSelection ==
    lastOp.name \in {"OnGraphicsDeviceEvent_Initialize", "UnityPluginLoad"}
        /\ lastOp.host # <<>> =>
    LET acc == Accessors(lastOp.host)
    IN  /\ s_RendererType = "D3D11" =>
              /\ Len(acc) = 1
              /\ acc[1].f = "Get_IUnityGraphicsD3D11"
        /\ s_RendererType = "D3D12" =>
              /\ Len(acc) >= 1
              /\ acc[1].f = "Get_IUnityGraphicsD3D12v7"
              /\ Count(acc, "Get_IUnityGraphicsD3D12v7") = 1
              /\ Count(acc, "Get_IUnityGraphicsD3D12v6") =
                     (IF acc[1].r = NullPtr THEN 1 ELSE 0)
              /\ Count(acc, "Get_IUnityGraphicsD3D11") = 0

\* A D3D12 host without the v7 interface: the fallback to v6 was taken.
C2_Witness ==
    /\ lastOp.name = "OnGraphicsDeviceEvent_Initialize"
    /\ s_RendererType = "D3D12"
    /\ Count(lastOp.host, "Get_IUnityGraphicsD3D12v6") = 1
    /\ s_D3D12Device # NullPtr

\* C3: a shutdown that directly follows a shutdown changes no session
\* state and does not call slShutdown, whichever of SLReflex_Shutdown, the
\* device-shutdown event and plugin unload the two are; and a shutdown path
\* calls slShutdown only from the initialized state, hence at most once per
\* successful initialization.
C3_ShutdownTwiceIsIdempotent ==
    [][/\ (lastOp.name = "returned_shutdown" /\ lastOp'.name \in ShutdownOps)
            => /\ UNCHANGED <<flagVars, modeVars, frameVars, errVars,
                              s_D3D12Device, s_D3D12CommandQueue,
                              s_D3D11Device>>
               /\ "slShutdown" \notin Names(lastOp'.sdk)
       /\ (lastOp'.name \in ShutdownOps /\
           "slShutdown" \in Names(lastOp'.sdk))
            => g_initialized /\ ~g_initialized']_vars

InitRequests == {"OnGraphicsDeviceEvent_Initialize",
                 "SLReflex_TryInitialize", "SLReflex_Initialize"}

\* C4: an initialization request made while the session is initialized
\* succeeds, calls none of slInit, slSetD3DDevice and slIsFeatureSupported,
\* and leaves the session state as it is.
C4_InitWhileInitializedIsNoOp ==
    [][(g_initialized /\ lastOp'.name \in InitRequests) =>
          /\ IF lastOp'.name = "OnGraphicsDeviceEvent_Initialize"
             THEN lastOp'.init = "true"
             ELSE lastOp'.ret = "true"
          /\ Names(lastOp'.sdk) \cap
                {"slInit", "slSetD3DDevice", "slIsFeatureSupported"} = {}
          /\ UNCHANGED <<flagVars, modeVars, frameVars, handleVars,
                         errVars>>]_vars

\* The device-initialize event delivered again to a session that has
\* counted frames.
C4_Witness ==
    /\ lastOp.name = "OnGraphicsDeviceEvent_Initialize"
    /\ lastOp.init = "true"
    /\ lastOp.sdk = <<>>
    /\ g_initialized
    /\ g_frameId > 0

\* C5: after an initialization attempt that failed at slInit or at
\* slSetD3DDevice the session is not initialized, a device handle is still
\* held, no support flag is set, slShutdown was called once if the bind
\* failed and not at all if slInit failed, and the SDK is not initialized.
C5_FailedInitLeavesDeviceBound ==
    (Failed(lastOp.sdk, "slInit") \/ Failed(lastOp.sdk, "slSetD3DDevice")) =>
        /\ ~g_initialized
        /\ s_D3D12Device # NullPtr \/ s_D3D11Device # NullPtr
        /\ ~g_reflexSupported /\ ~g_pclSupported
        /\ ~g_dlssSupported /\ ~g_dlssgSupported
        /\ Count(lastOp.sdk, "slShutdown") =
               (IF Failed(lastOp.sdk, "slSetD3DDevice") THEN 1 ELSE 0)
        /\ ~sdkUp

\* A bind that failed after slInit had succeeded.
C5_Witness ==
    /\ Failed(lastOp.sdk, "slSetD3DDevice")
    /\ Succeeded(lastOp.sdk, "slInit", 0)
    /\ lastOp.init = "false"

\* C7: after SLReflex_Shutdown or the device-shutdown event has shut an
\* initialized session down, slShutdown has been called, the initialized
\* flag and the support flags are false, the modes are Off, and the device
\* handle, the command queue handle and the interface pointer the deferred
\* callback uses are null.
C7_ShutdownClearsFlagsModesHandles ==
    (lastOp.name \in {"OnGraphicsDeviceEvent_Shutdown", "SLReflex_Shutdown"}
        /\ "slShutdown" \in Names(lastOp.sdk)) =>
        /\ ~sdkUp
        /\ ~g_initialized
        /\ ~g_reflexSupported /\ ~g_pclSupported
        /\ ~g_dlssSupported /\ ~g_dlssgSupported
        /\ g_currentMode = 0 /\ g_dlssMode = 0 /\ g_dlssgMode = 0
        /\ s_D3D12Device = NullPtr /\ s_D3D11Device = NullPtr
        /\ s_D3D12CommandQueue = NullPtr
        /\ s_D3D12v7_ptr = NullPtr

\* C8: a device-initialize event that delivers a device and for which
\* slInit and slSetD3DDevice succeed leaves the session initialized, the
\* frame counter 0, the last-error code 0 and each support flag equal to
\* the result of its probe; after a shutdown as at any other time.
C8_Rebindable ==
    (lastOp.name = "OnGraphicsDeviceEvent_Initialize"
        /\ \E d \in 1..MaxEpoch :
              /\ Succeeded(lastOp.sdk, "slInit", 0)
              /\ Succeeded(lastOp.sdk, "slSetD3DDevice", d)) =>
        /\ g_initialized
        /\ g_frameId = 0
        /\ g_lastErrorCode = 0
        /\ g_reflexSupported = Succeeded(lastOp.sdk, "slIsFeatureSupported", 0)
        /\ g_pclSupported = Succeeded(lastOp.sdk, "slIsFeatureSupported", 1)
        /\ g_dlssSupported = Succeeded(lastOp.sdk, "slIsFeatureSupported", 2)
        /\ g_dlssgSupported = Succeeded(lastOp.sdk, "slIsFeatureSupported", 3)

\* A second device bound after the session on the first was shut down.
C8_Witness ==
    /\ lastOp.name = "OnGraphicsDeviceEvent_Initialize"
    /\ Succeeded(lastOp.sdk, "slSetD3DDevice", 2)
    /\ everShutdown
    /\ g_initialized
    /\ g_reflexSupported /\ ~g_pclSupported

\* C9: a marker call whose marker is negative or not below the maximum of
\* the marker set requests no frame token and forwards no marker, in
\* every state.
C9_OutOfRangeMarkerRejected ==
    (lastOp.name = "SLReflex_SetMarker"
        /\ (lastOp.arg < 0 \/ lastOp.arg >= eMaximum)) =>
        /\ "slGetNewFrameToken" \notin Names(lastOp.sdk)
        /\ "slPCLSetMarker" \notin Names(lastOp.sdk)

\* The marker one past the last of the set, on an initialized session
\* with marker support.
C9_Witness ==
    /\ lastOp.name = "SLReflex_SetMarker"
    /\ lastOp.arg = eMaximum
    /\ g_initialized
    /\ g_pclSupported


----------------------------------------------------------------------------
(* Properties of the error codes and of the latency statistics *)

InitErrorCodes == {InitErrorCode(r) : r \in ResultCodes \ {eOk}}

BindErrorCodes == {BindErrorCode(r) : r \in ResultCodes \ {eOk}}

\* C6: the last-error code of a failed initialization tells the failing
\* step: the code recorded when slInit fails with r1 is none of the codes
\* recorded when slSetD3DDevice fails with some r2, and conversely, and
\* neither is the code of "no device" (-999); r1 and r2 range over the
\* non-OK result codes of the SDK, 1..MaxResultCode (the enumerators of
\* sl::Result are fewer than 100).
C6_ErrorCodeTellsFailingStep ==
    /\ InitErrorCodes \cap BindErrorCodes = {}
    /\ NoDeviceErrorCode \notin InitErrorCodes \cup BindErrorCodes
    /\ Failed(lastOp.sdk, "slInit") =>
          g_lastErrorCode \in InitErrorCodes \ BindErrorCodes
    /\ Failed(lastOp.sdk, "slSetD3DDevice") =>
          g_lastErrorCode \in BindErrorCodes \ InitErrorCodes
    /\ (lastOp.name = "SLReflex_TryInitialize" /\ lastOp.ret = "false"
         /\ lastOp.sdk = <<>>) =>
          g_lastErrorCode = NoDeviceErrorCode

\* slSetD3DDevice failed with the largest result code, after an earlier
\* attempt on another device.
C6_Witness ==
    /\ \E i \in 1..Len(lastOp.sdk) :
          /\ lastOp.sdk[i].f = "slSetD3DDevice"
          /\ lastOp.sdk[i].r = MaxResultCode
    /\ g_lastErrorCode = BindErrorCode(MaxResultCode)
    /\ host.epoch = 2

\* The slots of the ring that hold a frame.
ValidSlots == {i \in 1..RingSize : sdkReflex.ring[i].frameID # 0}

\* Microseconds the frames of the ring spent in phase ph.
PhaseTotal(ph) ==
    SumOf([i \in ValidSlots |->
              sdkReflex.ring[i].end[ph] - sdkReflex.ring[i].start[ph]],
          ValidSlots)

\* C10: on a ring with N slots of non-zero frame id, each phase of each
\* ending after it starts, and M slots of frame id 0, latency statistics
\* succeed with every phase average equal to the sum over the N valid
\* slots divided by N (in milliseconds: over 1000 * N); with N = 0, or
\* with no report available, the call fails.
C10_LatencyAveragesOverValidFrames ==
    (lastOp.name = "SLReflex_GetLatencyStats"
        /\ Succeeded(lastOp.sdk, "slReflexGetState", 0)) =>
    LET N == Cardinality(ValidSlots)
        startBeforeEnd ==
            \A i \in ValidSlots, ph \in Phases :
                sdkReflex.ring[i].start[ph] < sdkReflex.ring[i].end[ph]
    IN  /\ (sdkReflex.available /\ N > 0 /\ startBeforeEnd) =>
              /\ lastOp.ret = "true"
              /\ lastOp.out.written
              /\ lastOp.out.den = 1000 * N
              /\ \A ph \in Phases : lastOp.out.sum[ph] = PhaseTotal(ph)
        /\ (N = 0 \/ ~sdkReflex.available) => lastOp.ret = "false"

\* Two frames and an empty slot that still holds times.
C10_Witness ==
    /\ lastOp.name = "SLReflex_GetLatencyStats"
    /\ lastOp.ret = "true"
    /\ Cardinality(ValidSlots) = 2
    /\ \E i \in 1..RingSize :
          /\ sdkReflex.ring[i].frameID = 0
          /\ sdkReflex.ring[i].end["gpuRender"] >
                 sdkReflex.ring[i].start["gpuRender"]
    /\ lastOp.out.sum["gpuRender"] = 642


----------------------------------------------------------------------------
\* The deferred evaluation handshake.

Callback(op) == op.name = "OnDLSSRenderEvent"

Matching(op) == Callback(op) /\ op.arg = kDLSSEventID_Evaluate

\* C11: a render callback whose event id is not the evaluate id does not
\* read the pending flag, leaves the pending flag and index as they were,
\* and calls neither the host nor the SDK.
C11_ForeignEventIsInert ==
    [][(Callback(lastOp') /\ lastOp'.arg # kDLSSEventID_Evaluate)
        => /\ "g_dlssPending.ready" \notin lastOp'.reads
           /\ g_dlssPending' = g_dlssPending
           /\ lastOp'.sdk = <<>>
           /\ lastOp'.host = <<>>]_vars

\* C12: a render callback with the evaluate id that finds the pending flag
\* false requests no frame token, evaluates nothing, does not ask the host
\* for the command recording state, and leaves the pending state as it
\* was.
C12_NothingPendingNothingDone ==
    [][(Matching(lastOp') /\ ~g_dlssPending.ready)
        => /\ lastOp'.sdk = <<>>
           /\ lastOp'.host = <<>>
           /\ g_dlssPending' = g_dlssPending]_vars

\* An evaluate callback on a session that would have evaluated (initialized,
\* upscaling supported, D3D12 interface present) returned without asking
\* the host: the flag was false.
C12_Witness ==
    /\ Matching(lastOp)
    /\ g_initialized /\ g_dlssSupported /\ s_D3D12v7_ptr # NullPtr
    /\ lastOp.host = <<>>
    /\ ~g_dlssPending.ready

\* C13: a render callback with the evaluate id that finds the pending flag
\* true leaves it false, by one write that changes nothing else of the
\* pending state, whichever way it returns: session not initialized or
\* upscaling unsupported, no D3D12 interface, no active command list, token
\* failure, evaluation failure, evaluation success.
C13_PendingClearedOnEveryPath ==
    [][(Matching(lastOp') /\ g_dlssPending.ready)
        => g_dlssPending' = [g_dlssPending EXCEPT !.ready = FALSE]]_vars

\* The callback returned after the frame token could not be obtained, and
\* the flag is clear.
C13_Witness ==
    /\ Matching(lastOp)
    /\ Failed(lastOp.sdk, "slGetNewFrameToken")
    /\ "slEvaluateFeature" \notin Names(lastOp.sdk)
    /\ ~g_dlssPending.ready

\* C18: the handshake holds one request and never queues.  After any
\* number of prepares, the callback calls slEvaluateFeature at most once
\* before the next prepare, with the token of the frame index the last
\* prepare captured; a callback that evaluates leaves nothing pending.
C18_SingleSlotNeverQueues ==
    /\ handoff.attempts <= 1
    /\ ~handoff.stale
    /\ (Matching(lastOp) /\ "slEvaluateFeature" \in Names(lastOp.sdk))
        => /\ Count(lastOp.sdk, "slEvaluateFeature") = 1
           /\ lastOp.sdk[1].a = handoff.marked
           /\ ~g_dlssPending.ready

\* A prepare overwrote a pending request at a later frame, and the
\* callback then evaluated once.
C18_Witness ==
    /\ Matching(lastOp)
    /\ "slEvaluateFeature" \in Names(lastOp.sdk)
    /\ handoff.over
    /\ handoff.attempts = 1
    /\ handoff.marked > 0


----------------------------------------------------------------------------
\* The presets.

\* The DLSS mode each enabling preset asks for.
PresetMode ==
    [n \in {"SLStreamline_EnableDLSSQualityWithFrameGen2x",
            "SLStreamline_EnableDLSSPerformanceWithFrameGen3x"} |->
        IF n = "SLStreamline_EnableDLSSQualityWithFrameGen2x" THEN 3 ELSE 1]

\* The options setter of frame generation was not called, as when the
\* feature is unsupported or the symbol is missing, or returned an error.
FrameGenNotSet(op) == ~Succeeded(op.sdk, "slDLSSGSetOptions", 0)

\* C14: an enabling preset whose upscaling sub-call succeeds and whose
\* frame-generation sub-call fails (SDK error, missing symbol, or frame
\* generation unsupported) returns true; the DLSS mode reads back as the
\* preset's, the frame-generation mode and the number of frames to
\* generate as they were before the call.
C14_PartialPresetSucceeds ==
    [][(/\ lastOp'.name \in DOMAIN PresetMode
        /\ Succeeded(lastOp'.sdk, "slDLSSSetOptions", 0)
        /\ FrameGenNotSet(lastOp'))
        => /\ lastOp'.ret = "true"
           /\ g_dlssMode' = PresetMode[lastOp'.name]
           /\ g_dlssgMode' = g_dlssgMode
           /\ g_numFramesToGenerate' = g_numFramesToGenerate]_vars

\* The quality preset succeeded in part on a session that had frame
\* generation on with two generated frames: the SDK refused the
\* frame-generation options, and the earlier mode and count still read
\* back.
C14_Witness ==
    /\ lastOp.name = "SLStreamline_EnableDLSSQualityWithFrameGen2x"
    /\ lastOp.ret = "true"
    /\ Succeeded(lastOp.sdk, "slDLSSSetOptions", 0)
    /\ Failed(lastOp.sdk, "slDLSSGSetOptions")
    /\ g_dlssMode = 3
    /\ g_dlssgMode = 1
    /\ g_numFramesToGenerate = 2


----------------------------------------------------------------------------
\* Error handling of the feature operations.

\* The support flag each feature operation belongs to.
FeatureFlag ==
    [SLReflex_SetMode |-> g_reflexSupported,
     SLReflex_Sleep |-> g_reflexSupported,
     SLReflex_SetMarker |-> g_pclSupported,
     SLDLSS_SetConstants |-> g_dlssSupported,
     SLDLSS_TagResourceD3D12 |-> g_dlssSupported,
     SLDLSS_SetOptions |-> g_dlssSupported,
     SLDLSS_GetOptimalSettings |-> g_dlssSupported,
     SLDLSS_Evaluate |-> g_dlssSupported,
     SLDLSSG_SetOptions |-> g_dlssgSupported,
     SLDLSSG_GetState |-> g_dlssgSupported,
     SLDLSSG_TagHUDLessColor |-> g_dlssgSupported,
     SLDLSSG_TagUIColorAndAlpha |-> g_dlssgSupported]

\* The operation op of an initialized session found its feature
\* unsupported and returned false or nothing without a call of the SDK.
RefusedLocally(name, op) ==
    (g_initialized /\ op.name = name /\ ~FeatureFlag[name])
        => op.ret \in {"false", "void"} /\ op.sdk = <<>>

\* C15: on an initialized session, an operation whose feature is flagged
\* unsupported (low latency for mode and sleep, marker statistics for
\* markers, upscaling for constants, tagging, options, optimal settings and
\* evaluate, frame generation for its options, state and tagging) returns
\* false or does nothing, and makes no SDK call.
C15_UnsupportedFeatureRefusedLocally ==
    [][\A name \in DOMAIN FeatureFlag : RefusedLocally(name, lastOp')]_vars

\* The boolean exported feature operations other than the two enabling
\* presets.
BoolOps ==
    {"SLReflex_SetMode", "SLReflex_GetState", "SLReflex_GetLatencyStats",
     "SLDLSS_SetConstants", "SLDLSS_TagResourceD3D12", "SLDLSS_SetOptions",
     "SLDLSS_GetOptimalSettings", "SLDLSS_Evaluate", "SLDLSSG_SetOptions",
     "SLDLSSG_GetState", "SLDLSSG_TagHUDLessColor",
     "SLDLSSG_TagUIColorAndAlpha", "SLDLSS_GetOptimalSettingsLegacy",
     "SLDLSS_SetMode", "SLDLSSG_SetMode", "SLDLSSG_GetStateLegacy",
     "SLStreamline_DisableDLSSAndFrameGen"}

\* Some SDK call of the operation returned another result than eOk.
SdkFailure(op) == \E i \in 1..Len(op.sdk) : op.sdk[i].r # eOk

\* C16: a boolean exported operation other than the enabling presets
\* returns false whenever an SDK call it makes, the frame-token request
\* included, returns another result than eOk.
C16_SdkFailureReturnsFalse ==
    (lastOp.name \in BoolOps /\ SdkFailure(lastOp)) => lastOp.ret = "false"


----------------------------------------------------------------------------
\* The device under an initialized session.

DeviceBound == s_D3D12Device # NullPtr \/ s_D3D11Device # NullPtr

\* C17: wherever the session is initialized, the D3D12 or the D3D11 device
\* handle is non-null; and an operation that called slInit ran with one of
\* the two handles non-null (no operation that calls slInit clears a
\* handle).
C17_InitializedImpliesDeviceBound ==
    (g_initialized \/ "slInit" \in Names(lastOp.sdk)) => DeviceBound

\* A session initialized on a D3D11 device alone, by the operation that
\* has just called slInit.
C17_Witness ==
    /\ g_initialized
    /\ "slInit" \in Names(lastOp.sdk)
    /\ s_D3D12Device = NullPtr
    /\ s_D3D11Device # NullPtr


----------------------------------------------------------------------------
\* The handshake between the simulation thread and the render thread.

\* Neither thread is inside prepare or the callback.
Quiescent == At("sim", "idle") /\ At("render", "idle")

\* C19: under every interleaving of prepare with the callback, the last
\* prepare is followed by exactly one evaluation attempt, keyed to its
\* frame index: never two attempts, never one for another frame index,
\* and while no attempt has been made for it and both threads are out of
\* their functions the request is still pending, so that no callback in
\* progress has cleared the flag after the prepare.
C19_OneEvaluationPerPrepare ==
    /\ handoff.attempts <= 1
    /\ ~handoff.stale
    /\ (Quiescent /\ handoff.prepared /\ handoff.attempts = 0)
        => g_dlssPending.ready


----------------------------------------------------------------------------
\* The initialize/shutdown transition.

\* The initializing thread is between the tests it passed and the store of
\* the initialized flag: slInit, slSetD3DDevice, the probes.
InInitBody == pc["init"] \in {"entered", "inited", "bound", "probed"}

\* The shutting-down thread is between the test it passed and the last
\* store of the flags: slShutdown, clearing the flags.
InShutdownBody ==
    pc["shut"] \in {"entered", "down", "initialized_cleared",
                    "support_cleared"}

\* C20: under every interleaving of an initialization request with a
\* shutdown request from another thread, no state has one thread in the
\* body of initialization and the other in the body of shutdown.
C20_TransitionBodiesExclusive == ~(InInitBody /\ InShutdownBody)


----------------------------------------------------------------------------
\* The last-error pair and the probes.

\* C21: after a call of SLReflex_TryInitialize or SLReflex_Initialize the
\* last-error code is 0 if and only if the call returned true; a call that
\* returned false leaves a non-zero code.
C21_ErrorCodeZeroIffInitSucceeded ==
    lastOp.name \in {"SLReflex_TryInitialize", "SLReflex_Initialize"}
        => (g_lastErrorCode = 0 <=> lastOp.ret = "true")


\* The operation bound the device: slSetD3DDevice returned eOk.
BoundDevice(op) ==
    \E i \in 1..Len(op.sdk) :
        op.sdk[i].f = "slSetD3DDevice" /\ op.sdk[i].r = eOk

\* The probe of feature k made by the operation returned eOk.
ProbeOk(op, k) == Succeeded(op.sdk, "slIsFeatureSupported", k)

\* C22: an initialization that bound the device leaves the session
\* initialized whatever the four probes return, having made each probe
\* once, and each support flag is the result of its own probe.
C22_ProbesOnlySetTheirFlags ==
    BoundDevice(lastOp)
        => /\ g_initialized
           /\ lastOp.init = "true"
           /\ Count(lastOp.sdk, "slIsFeatureSupported") = 4
           /\ g_reflexSupported = ProbeOk(lastOp, 0)
           /\ g_pclSupported = ProbeOk(lastOp, 1)
           /\ g_dlssSupported = ProbeOk(lastOp, 2)
           /\ g_dlssgSupported = ProbeOk(lastOp, 3)

\* A session initialized on an adapter where the probes of low latency and
\* frame generation succeeded and the other two failed.
C22_Witness ==
    /\ BoundDevice(lastOp)
    /\ g_initialized
    /\ g_reflexSupported /\ ~g_pclSupported
    /\ ~g_dlssSupported /\ g_dlssgSupported


----------------------------------------------------------------------------
\* Frame tokens and the frame counter.

\* The calls are one token request for the current frame index and, if it
\* returned eOk with a token, one call of forward with that token after
\* it; key is the first argument of the forwarded call.
TokenThenForward(calls, forward, key) ==
    /\ Len(calls) >= 1
    /\ calls[1].f = "slGetNewFrameToken"
    /\ calls[1].a = FrameIndex(g_frameId)
    /\ IF calls[1].r = eOk /\ calls[1].b # NullPtr
       THEN /\ Len(calls) = 2
            /\ calls[2].f = forward
            /\ calls[2].a = key
            /\ calls[2].b = calls[1].b
       ELSE Len(calls) = 1

\* C23: on an initialized session a marker call with a marker in range
\* requests one frame token, for the frame counter modulo 2^32, and then
\* forwards the marker to the SDK once with that token, and only if the
\* request returned eOk with a non-null token; the sleep call requests and
\* forwards in the same way.
C23_TokenThenForward ==
    /\ (/\ lastOp.name = "SLReflex_SetMarker"
        /\ g_initialized
        /\ 0 <= lastOp.arg /\ lastOp.arg < eMaximum)
        => TokenThenForward(lastOp.sdk, "slPCLSetMarker", lastOp.arg)
    /\ (lastOp.name = "SLReflex_Sleep" /\ g_initialized)
        => TokenThenForward(lastOp.sdk, "slReflexSleep", 0)

\* A marker call at a frame after the first whose request returned eOk
\* with a null token, and which forwarded nothing.
C23_Witness ==
    /\ lastOp.name = "SLReflex_SetMarker"
    /\ g_initialized
    /\ g_frameId > 0
    /\ Len(lastOp.sdk) = 1
    /\ lastOp.sdk[1].r = eOk
    /\ lastOp.sdk[1].b = NullPtr


BeginFrames == {"SLReflex_BeginFrame", "SLDLSS_BeginFrame"}

\* C24: a begin-frame call on an initialized session adds one to the frame
\* counter and changes nothing else; on a session that is not initialized
\* it changes nothing; and the only step that lowers the counter is a
\* successful initialization, which sets it to 0.
C24_FrameCounterCountsFrames ==
    [][/\ lastOp'.name \in BeginFrames
          => /\ g_frameId' = IF g_initialized THEN g_frameId + 1
                             ELSE g_frameId
             /\ UNCHANGED <<flagVars, modeVars, g_dlssViewport,
                            g_dlssPending, ifaceVars, handleVars, errVars,
                            sdkUp, g_callbackInvocationCount>>
             /\ lastOp'.sdk = <<>>
       /\ g_frameId' < g_frameId
          => /\ g_frameId' = 0
             /\ ~g_initialized /\ g_initialized'
             /\ BoundDevice(lastOp')]_vars

\* SLDLSS_BeginFrame has counted a frame of an initialized session.
C24_Witness ==
    /\ lastOp.name = "SLDLSS_BeginFrame"
    /\ g_initialized
    /\ g_frameId > 0


\* C25: the callback requests its frame token for the frame index the most
\* recent prepare captured, whatever the frame counter has become since;
\* it requests the token only after the host returned a command list,
\* evaluates only after the request returned eOk with a token, with that
\* token, and makes no other call.
C25_CallbackUsesMarkedFrame ==
    Matching(lastOp)
        => /\ Len(lastOp.host) <= 1
           /\ Len(lastOp.sdk) <= 2
           /\ lastOp.sdk # <<>>
                => /\ handoff.prepared
                   /\ lastOp.host # <<>>
                   /\ lastOp.host[1].f = "CommandRecordingState"
                   /\ lastOp.host[1].r = 0
                   /\ lastOp.host[1].b # NullPtr
                   /\ lastOp.sdk[1].f = "slGetNewFrameToken"
                   /\ lastOp.sdk[1].a = handoff.marked
           /\ Len(lastOp.sdk) = 2
                => /\ lastOp.sdk[1].r = eOk
                   /\ lastOp.sdk[1].b # NullPtr
                   /\ lastOp.sdk[2].f = "slEvaluateFeature"
                   /\ lastOp.sdk[2].b = lastOp.sdk[1].b

\* The callback evaluated the frame marked by the prepare after begin-frame
\* calls had moved the counter on.
C25_Witness ==
    /\ Matching(lastOp)
    /\ "slEvaluateFeature" \in Names(lastOp.sdk)
    /\ lastOp.sdk[1].a = handoff.marked
    /\ FrameIndex(g_frameId) > handoff.marked


\* The calls hold a frame-token request that returned eOk and a token.
Granted(calls) ==
    \E i \in 1..Len(calls) :
        /\ calls[i].f = "slGetNewFrameToken"
        /\ calls[i].r = eOk
        /\ calls[i].b # NullPtr

\* C26: SLDLSS_Evaluate changes no variable of the session on any path,
\* and returns true exactly when the session is initialized, upscaling is
\* supported, the frame-token request returned eOk with a token and
\* slEvaluateFeature returned eOk; whether constants or tags were submitted
\* in the frame plays no part in the result.
C26_DirectEvaluateMutatesNothing ==
    [][lastOp'.name = "SLDLSS_Evaluate"
          => /\ UNCHANGED <<flagVars, modeVars, frameVars, ifaceVars,
                            handleVars, errVars, g_callbackInvocationCount>>
             /\ lastOp'.ret = "true"
                  <=> /\ g_initialized
                      /\ g_dlssSupported
                      /\ Granted(lastOp'.sdk)
                      /\ Succeeded(lastOp'.sdk, "slEvaluateFeature", 0)]_vars

\* SLDLSS_Evaluate has returned true in a frame of a run in which no
\* constants were ever submitted.
C26_Witness ==
    /\ lastOp.name = "SLDLSS_Evaluate"
    /\ lastOp.ret = "true"
    /\ g_frameId > 0

Queries == {"SLDLSS_GetOptimalSettings", "SLDLSS_GetOptimalSettingsLegacy"}

\* C27: in every state a get-optimal-settings call requests no frame
\* token and changes no variable of the session, the current upscaling
\* mode included, and it stores through the caller's output locations only
\* when the SDK query returned eOk.
C27_OptimalSettingsIsPureQuery ==
    [][lastOp'.name \in Queries
          => /\ "slGetNewFrameToken" \notin Names(lastOp'.sdk)
             /\ UNCHANGED <<flagVars, modeVars, frameVars, ifaceVars,
                            handleVars, errVars, g_callbackInvocationCount>>
             /\ lastOp'.out.written
                  => \E i \in 1..Len(lastOp'.sdk) :
                        /\ lastOp'.sdk[i].f = "slDLSSGetOptimalSettings"
                        /\ lastOp'.sdk[i].r = eOk]_vars

\* A query for a mode other than the current one has stored its outputs.
C27_Witness ==
    /\ lastOp.name = "SLDLSS_GetOptimalSettings"
    /\ lastOp.out.written
    /\ lastOp.arg # g_dlssMode

\* C28: in every state, initialized or not, SLDLSS_SetViewport makes no
\* SDK or host call, stores the given id as the viewport and changes
\* nothing else.
C28_SetViewportIsLocal ==
    [][lastOp'.name = "SLDLSS_SetViewport"
          => /\ lastOp'.sdk = <<>>
             /\ lastOp'.host = <<>>
             /\ g_dlssViewport' = lastOp'.arg
             /\ UNCHANGED <<flagVars, modeVars, g_frameId, g_dlssPending,
                            ifaceVars, handleVars, errVars, sdkUp,
                            g_callbackInvocationCount>>]_vars

\* SLDLSS_SetViewport has changed the viewport of a session that is not
\* initialized.
C28_Witness ==
    /\ lastOp.name = "SLDLSS_SetViewport"
    /\ ~g_initialized
    /\ g_dlssViewport = 1

TagOps ==
    {"SLDLSS_TagResourceD3D12", "SLDLSSG_TagHUDLessColor",
     "SLDLSSG_TagUIColorAndAlpha"}

\* C29: a tag call with a null handle returns false without an SDK call;
\* a tag call with a handle on an initialized session requests one token
\* for the current frame index and, only if that request returned eOk with
\* a token, submits one tag of lifecycle eOnlyValidNow for the current
\* viewport; a tag call changes no variable, and no other operation
\* submits a tag, so nothing of frame f is submitted again in frame f+1.
C29_TagsAreFrameScoped ==
    [][/\ lastOp'.name \in TagOps
          => /\ UNCHANGED <<flagVars, modeVars, frameVars, ifaceVars,
                            handleVars, errVars, g_callbackInvocationCount>>
             /\ lastOp'.arg = NullPtr \/ ~g_initialized
                  => lastOp'.ret = "false" /\ lastOp'.sdk = <<>>
             /\ lastOp'.arg # NullPtr /\ g_initialized
                  => /\ Count(lastOp'.sdk, "slGetNewFrameToken") = 1
                     /\ lastOp'.sdk[1].f = "slGetNewFrameToken"
                     /\ lastOp'.sdk[1].a = FrameIndex(g_frameId)
                     /\ Len(lastOp'.sdk) =
                            IF Granted(lastOp'.sdk) THEN 2 ELSE 1
             /\ Len(lastOp'.sdk) = 2
                  => /\ lastOp'.sdk[2].f = "slSetTagForFrame"
                     /\ lastOp'.sdk[2].a = g_dlssViewport
                     /\ lastOp'.sdk[2].b.lifecycle = "eOnlyValidNow"
       /\ lastOp'.name \notin TagOps
          => "slSetTagForFrame" \notin Names(lastOp'.sdk)]_vars

\* A tag has been submitted in a frame after the first, for a viewport
\* other than the initial one.
C29_Witness ==
    /\ lastOp.name \in TagOps
    /\ "slSetTagForFrame" \in Names(lastOp.sdk)
    /\ g_frameId > 0
    /\ g_dlssViewport = 1


\* The SDK setter behind each legacy setter and its current entry point.
LegacySetters ==
    [SLDLSS_SetMode |-> "slDLSSSetOptions",
     SLDLSSG_SetMode |-> "slDLSSGSetOptions"]

IsSetterCall(c) == c.f \in {"slDLSSSetOptions", "slDLSSGSetOptions"}

\* The lookup of the SDK function failed or stored no function.
Unresolved(calls) ==
    \E i \in 1..Len(calls) :
        /\ calls[i].f = "slGetFeatureFunction"
        /\ calls[i].r # eOk \/ calls[i].b = NullPtr

\* The legacy setter that took the step did what the current entry point
\* does in the same state for the same mode and some result of the SDK
\* setter: same return value, same setter calls (viewport and mode), same
\* stored mode.  A step in which the SDK did not hand out the setter is
\* left aside: the current entry point is linked against it.
LikeCurrent(op, before, after) ==
    \/ Unresolved(op.sdk)
    \/ \E r \in SlResults :
        LET c == SetOptions(LegacySetters[op.name], op.arg, r)
        IN  /\ op.ret = Bool(c.ret)
            /\ SelectSeq(op.sdk, IsSetterCall) = c.sdk
            /\ after = IF c.ret THEN op.arg ELSE before

\* C30: in every state, for every viewport id and mode, SLDLSS_SetMode
\* behaves as SLDLSS_SetOptions and SLDLSSG_SetMode as SLDLSSG_SetOptions:
\* same result, same viewport and mode passed to the SDK, same session
\* state left.
C30_LegacySettersMatchCurrent ==
    [][/\ lastOp'.name = "SLDLSS_SetMode"
          => LikeCurrent(lastOp', g_dlssMode, g_dlssMode')
       /\ lastOp'.name = "SLDLSSG_SetMode"
          => LikeCurrent(lastOp', g_dlssgMode, g_dlssgMode')]_vars


\* calls[k] requests a frame token for index and, exactly when it is
\* granted, calls[k+1] forwards key to the SDK entry point forward with
\* that token.
ForwardsAt(calls, k, index, forward, key) ==
    /\ Len(calls) >= k
    /\ calls[k].f = "slGetNewFrameToken"
    /\ calls[k].a = index
    /\ calls[k].r = eOk /\ calls[k].b # NullPtr
          => /\ Len(calls) >= k + 1
             /\ calls[k + 1].f = forward
             /\ calls[k + 1].a = key
             /\ calls[k + 1].b = calls[k].b

\* The number of calls ForwardsAt accounts for from position k on.
Forwarded(calls, k) ==
    IF calls[k].r = eOk /\ calls[k].b # NullPtr THEN 2 ELSE 1

\* The markers of event ids 1 to 5: simulation end, render submit start,
\* render submit end, present start, present end.
MarkerOfEvent ==
    <<eSimulationEnd, eRenderSubmitStart, eRenderSubmitEnd, ePresentStart,
      ePresentEnd>>

\* C31: on an initialized session the Reflex render-event callback given
\* event id 0 counts the frame, then sleeps, then marks simulation start,
\* so that both token requests carry the incremented frame index; given an
\* event id from 1 to 5 it requests one token and forwards that event's
\* marker and nothing else; given any other event id, the deferred
\* evaluation id included, or on a session that is not initialized, it
\* makes no call and changes nothing.
C31_RenderEventSequencesFrameStart ==
    [][lastOp'.name = "OnRenderEvent"
          => LET e == lastOp'.arg
                 calls == lastOp'.sdk
             IN  /\ UNCHANGED <<flagVars, modeVars, g_dlssViewport,
                                g_dlssPending, ifaceVars, handleVars,
                                errVars, g_callbackInvocationCount>>
                 /\ lastOp'.host = <<>>
                 /\ g_initialized /\ e = 0
                      => /\ g_frameId' = g_frameId + 1
                         /\ ForwardsAt(calls, 1, FrameIndex(g_frameId + 1),
                                       "slReflexSleep", 0)
                         /\ ForwardsAt(calls, 1 + Forwarded(calls, 1),
                                       FrameIndex(g_frameId + 1),
                                       "slPCLSetMarker", eSimulationStart)
                         /\ Len(calls) =
                               Forwarded(calls, 1) +
                               Forwarded(calls, 1 + Forwarded(calls, 1))
                 /\ g_initialized /\ e \in 1..5
                      => /\ g_frameId' = g_frameId
                         /\ ForwardsAt(calls, 1, FrameIndex(g_frameId),
                                       "slPCLSetMarker", MarkerOfEvent[e])
                         /\ Len(calls) = Forwarded(calls, 1)
                 /\ ~g_initialized \/ e \notin 0..5
                      => calls = <<>> /\ g_frameId' = g_frameId]_vars

\* The callback has started a frame: it slept and marked simulation start
\* with tokens of the frame it had just counted.
C31_Witness ==
    /\ lastOp.name = "OnRenderEvent"
    /\ lastOp.arg = 0
    /\ Names(lastOp.sdk) =
          {"slGetNewFrameToken", "slReflexSleep", "slPCLSetMarker"}
    /\ lastOp.sdk[1].a = FrameIndex(g_frameId)
    /\ g_frameId > 1


----------------------------------------------------------------------------
\* The SDK lifecycle and the flags of a session that is not initialized.

\* Whether the SDK is initialized just before calls[i], up being whether it
\* was before calls[1]: a successful slInit initializes it, slShutdown
\* ends it.
RECURSIVE UpBefore(_, _, _)
UpBefore(calls, i, up) ==
    IF i = 1 THEN up
    ELSE LET c == calls[i - 1]
         IN  IF c.f = "slInit" /\ c.r = eOk THEN TRUE
             ELSE IF c.f = "slShutdown" THEN FALSE
             ELSE UpBefore(calls, i - 1, up)

\* C32: in every state an operation returned to, the SDK is initialized
\* exactly when the initialized flag is true; slInit is never called while
\* the SDK is initialized, and slShutdown never while it is not.
C32_SdkLifecycleExact ==
    /\ [](sdkUp <=> g_initialized)
    /\ [][\A i \in 1..Len(lastOp'.sdk) :
             /\ lastOp'.sdk[i].f = "slInit"
                  => ~UpBefore(lastOp'.sdk, i, sdkUp)
             /\ lastOp'.sdk[i].f = "slShutdown"
                  => UpBefore(lastOp'.sdk, i, sdkUp)]_vars

\* A session torn down and initialized again: slShutdown and then slInit
\* were each called in the state that allows them.
C32_Witness ==
    /\ Succeeded(lastOp.sdk, "slInit", 0)
    /\ lastOp.init = "true"
    /\ everShutdown
    /\ sdkUp


\* C33: in every state an operation or host event returned to, a session
\* that is not initialized has its four support flags false and its
\* Reflex, DLSS and frame-generation modes Off.
C33_UninitializedSessionIsBlank ==
    ~g_initialized
        => /\ ~g_reflexSupported /\ ~g_pclSupported
           /\ ~g_dlssSupported /\ ~g_dlssgSupported
           /\ g_currentMode = 0 /\ g_dlssMode = 0 /\ g_dlssgMode = 0

\* A setter was called with a mode other than Off on a session that had
\* been shut down, and stored nothing.
C33_Witness ==
    /\ lastOp.name \in {"SLReflex_SetMode", "SLDLSS_SetOptions",
                         "SLDLSSG_SetOptions"}
    /\ lastOp.arg # 0
    /\ everShutdown
    /\ ~g_initialized

\* C34: in every reachable state a mode other than Off implies the support
\* flag of its feature: Reflex, DLSS, frame generation.
C34_ModeOnImpliesSupported ==
    /\ g_currentMode # 0 => g_reflexSupported
    /\ g_dlssMode # 0 => g_dlssSupported
    /\ g_dlssgMode # 0 => g_dlssgSupported

\* The accepted calls of the SDK setter f among calls.
Accepted(calls, f) ==
    {i \in 1..Len(calls) : calls[i].f = f /\ calls[i].r = eOk}

\* The mode an SDK setter call carries.
ModeOf(c) == IF c.f = "slReflexSetOptions" THEN c.a ELSE c.b

\* The mode of the last accepted call of f among calls, before if none.
Stored(calls, f, before) ==
    IF Accepted(calls, f) = {} THEN before
    ELSE ModeOf(calls[CHOOSE i \in Accepted(calls, f) :
                        \A j \in Accepted(calls, f) : j <= i])

\* C35: each stored mode is Off while the session is not initialized and
\* otherwise the mode of the most recent setter call the SDK accepted, so
\* that a call rejected locally or refused by the SDK leaves it as it was;
\* each mode getter returns the stored mode of its feature.
C35_GettersReturnLastAcceptedMode ==
    [][/\ g_currentMode' =
             IF ~g_initialized' THEN 0
             ELSE Stored(lastOp'.sdk, "slReflexSetOptions", g_currentMode)
       /\ g_dlssMode' =
             IF ~g_initialized' THEN 0
             ELSE Stored(lastOp'.sdk, "slDLSSSetOptions", g_dlssMode)
       /\ g_dlssgMode' =
             IF ~g_initialized' THEN 0
             ELSE Stored(lastOp'.sdk, "slDLSSGSetOptions", g_dlssgMode)
       /\ lastOp'.name = "SLReflex_GetMode"
             => lastOp'.value = g_currentMode
       /\ lastOp'.name = "SLDLSS_GetMode" => lastOp'.value = g_dlssMode
       /\ lastOp'.name = "SLDLSSG_GetMode"
             => lastOp'.value = g_dlssgMode]_vars

\* The SDK refused a call that would have set the Reflex mode Off, and
\* the mode accepted earlier is still the stored one.
C35_Witness ==
    /\ lastOp.name = "SLReflex_SetMode"
    /\ lastOp.arg = 0
    /\ Failed(lastOp.sdk, "slReflexSetOptions")
    /\ g_currentMode = 2


----------------------------------------------------------------------------
\* A legacy setter racing with shutdown.

\* C36: under every interleaving of SLDLSS_SetMode or SLDLSSG_SetMode on
\* one thread with SLReflex_Shutdown on another, the setter makes its SDK
\* calls while the SDK is initialized, never after slShutdown, and once
\* both threads have returned no stored mode is other than Off on a
\* session that is not initialized.
C36_SetterNeverOutlivesSdk ==
    /\ [][(/\ lastOp' # lastOp
            /\ lastOp'.name \in {"SLDLSS_SetMode", "SLDLSSG_SetMode"}
            /\ lastOp'.sdk # <<>>) => sdkUp]_vars
    /\ [](At("set", "idle") /\ At("shut", "idle") /\ ~g_initialized
            => g_dlssMode = 0 /\ g_dlssgMode = 0)


----------------------------------------------------------------------------
\* The deferred evaluation across sessions and device bindings.

\* C37: an evaluation by the deferred callback uses a frame index that a
\* prepare captured during the current initialized session: no request
\* pending when the session was initialized or shut down is evaluated
\* afterwards.
C37_PendingStaysInItsSession ==
    (Matching(lastOp) /\ "slEvaluateFeature" \in Names(lastOp.sdk))
        => ~handoff.crossed


\* The host's current device is a D3D12 device that offers the v7
\* interface, and the pointer the callback uses is that interface.
BoundThroughV7 ==
    /\ host.renderer = "D3D12"
    /\ host.v7
    /\ s_D3D12v7_ptr = host.epoch

\* C38: the deferred callback asks for the command-recording state only
\* through the D3D12 v7 interface of the current device binding; when the
\* current binding was made through the v6 fallback or through D3D11, also
\* after an earlier v7 binding, a callback that finds a request pending
\* makes no host query and no SDK call and clears the pending flag.
C38_CallbackQueriesCurrentV7Only ==
    Matching(lastOp)
        => /\ lastOp.host # <<>> => BoundThroughV7
           /\ lastOp.sdk # <<>> => BoundThroughV7
           /\ (g_initialized /\ ~BoundThroughV7) => ~g_dlssPending.ready

\* C39: a latency-statistics call that fails (session not initialized,
\* state query failed, no report available, no valid entry in the ring)
\* has stored nothing in the caller's record.
C39_FailedStatsLeaveRecord ==
    (lastOp.name = "SLReflex_GetLatencyStats" /\ lastOp.ret = "false")
        => lastOp.out = Untouched

\* The features a call looked up with slGetFeatureFunction, in order.
Lookups(calls) ==
    LET found == SelectSeq(calls, LAMBDA c : c.f = "slGetFeatureFunction")
    IN  [i \in 1..Len(found) |-> found[i].a]

\* C40: the disabling preset attempts the frame-generation sub-call and
\* then the upscaling sub-call, the second whatever the first returned, and
\* returns true exactly when both options setters succeeded; an enabling
\* preset whose upscaling sub-call fails returns false, makes no attempt at
\* frame generation and leaves both modes as they were.
C40_DisableTriesBothEnableStopsEarly ==
    [][/\ lastOp'.name = "SLStreamline_DisableDLSSAndFrameGen" =>
           /\ Lookups(lastOp'.sdk) =
                  (IF g_initialized /\ g_dlssgSupported
                   THEN <<3>> ELSE <<>>)
                  \o (IF g_initialized /\ g_dlssSupported
                      THEN <<2>> ELSE <<>>)
           /\ lastOp'.ret = "true" <=>
                  /\ Succeeded(lastOp'.sdk, "slDLSSGSetOptions", 0)
                  /\ Succeeded(lastOp'.sdk, "slDLSSSetOptions", 0)
       /\ (/\ lastOp'.name \in DOMAIN PresetMode
           /\ ~Succeeded(lastOp'.sdk, "slDLSSSetOptions", 0)) =>
           /\ lastOp'.ret = "false"
           /\ Lookups(lastOp'.sdk) \in {<<>>, <<2>>}
           /\ "slDLSSGSetOptions" \notin Names(lastOp'.sdk)
           /\ g_dlssMode' = g_dlssMode
           /\ g_dlssgMode' = g_dlssgMode]_vars

\* The disabling preset on a session with frame generation on: the SDK
\* refused the frame-generation options, the upscaling options were set
\* all the same, and the preset returned false.
C40_Witness ==
    /\ lastOp.name = "SLStreamline_DisableDLSSAndFrameGen"
    /\ lastOp.ret = "false"
    /\ Failed(lastOp.sdk, "slDLSSGSetOptions")
    /\ Succeeded(lastOp.sdk, "slDLSSSetOptions", 0)
    /\ g_dlssMode = 0
    /\ g_dlssgMode = 1

============================================================================
